---- MODULE Spec2Model ----
(***************************************************************************)
(* Model of the WCET pipeline of the timing-analysis tool:                 *)
(* leader discovery, block assembly, callee duplication, CFG construction, *)
(* cycle condensation and the final WCET reduction (src/src/wcet.rs,       *)
(* src/src/cycle.rs, src/src/graph.rs, src/src/block.rs, src/src/jump.rs). *)
(***************************************************************************)
EXTENDS Integers, Sequences, FiniteSets, TLC

\* Longest generated instruction stream of the exhaustive family.
MaxLen == 3
\* Largest iteration / recursion bound an environment sets.
MaxBound == 2
\* Largest number of variables an environment sets.
MaxVars == 2

\* Address of the first decoded instruction of a generated stream.
BaseAddr == 4096
\* Marker of an operand string that holds no hexadecimal immediate.
NoImm == 0 - 1

-----------------------------------------------------------------------------
(* Small helpers over sets, sequences and maps.                            *)

Max(a, b) == IF a >= b THEN a ELSE b

\* The elements of the finite set S as a sequence, by ascending key; key
\* gives each element of S an integer of its own.
SortedBy(S, key) ==
    SubSeq([r \in 1..Cardinality(S) |->
               CHOOSE x \in S : Cardinality({y \in S : key[y] < key[x]}) = r - 1],
           1, Cardinality(S))

\* The elements of a finite set of integers in ascending order.
SetToSeq(S) == SortedBy(S, [x \in S |-> x])

Range(s) == {s[k] : k \in 1..Len(s)}

\* map.insert(k, v) of a HashMap / BTreeMap.
MapPut(m, k, v) == (k :> v) @@ m
\* map.remove(k).
MapDel(m, k) == [x \in (DOMAIN m) \ {k} |-> m[x]]
EmptyMap == [x \in {} |-> 0]

RECURSIVE Pow2(_)
Pow2(n) == IF n = 0 THEN 1 ELSE 2 * Pow2(n - 1)
\* Width of an address (u64).
WordBits == 64
RECURSIVE TrailingZeros(_)
TrailingZeros(a) == IF a % 2 = 1 THEN 0 ELSE 1 + TrailingZeros(a \div 2)
RECURSIVE BitLength(_)
BitLength(a) == IF a = 0 THEN 0 ELSE 1 + BitLength(a \div 2)
\* The 64-bit value m * 2^e, m odd and below 2^24, when it is too large to be
\* written as a number of the model: a negative number of its own.
Wide(e, m) == 0 - (e * Pow2(24) + m)
\* a << n on a 64-bit address a below 2^24: the bits shifted past bit 63 are
\* lost.  A result below 2^30 is the number itself, a larger one is Wide.
Shl(a, n) ==
    IF a = 0 \/ TrailingZeros(a) + n >= WordBits THEN 0
    ELSE IF BitLength(a) + n <= 30 THEN a * Pow2(n)
    ELSE Wide(TrailingZeros(a) + n,
              (a \div Pow2(TrailingZeros(a)))
                  % Pow2(IF WordBits - TrailingZeros(a) - n > 30 THEN 30
                         ELSE WordBits - TrailingZeros(a) - n))

-----------------------------------------------------------------------------
(* jump.rs: ExitJump and its classification.                               *)

NoJump == [type |-> "None", a |-> 0, b |-> 0]
ConditionalRelative(taken, not_taken) == [type |-> "ConditionalRelative", a |-> taken, b |-> not_taken]
UnconditionalRelative(t) == [type |-> "UnconditionalRelative", a |-> t, b |-> 0]
ConditionalAbsolute(taken, not_taken) == [type |-> "ConditionalAbsolute", a |-> taken, b |-> not_taken]
UnconditionalAbsolute(t) == [type |-> "UnconditionalAbsolute", a |-> t, b |-> 0]
Indirect == [type |-> "Indirect", a |-> 0, b |-> 0]
Ret(r) == [type |-> "Ret", a |-> r, b |-> 0]
Call(t, ft) == [type |-> "Call", a |-> t, b |-> ft]
NextJ(t) == [type |-> "Next", a |-> t, b |-> 0]

IsConditional(ej) == ej.type \in {"ConditionalRelative", "ConditionalAbsolute"}
IsUnconditional(ej) == ej.type \in {"UnconditionalRelative", "UnconditionalAbsolute"}

\* A decoded instruction: its address, the decoder's group tags (grp: "none",
\* "jump", "call" or "ret"; rel: BRANCH_RELATIVE), whether the mnemonic is in the
\* architecture's table of unconditional branches, the immediate of its last
\* operand (NoImm when the operand holds no "0x"), and its latency.
Insn(addr, grp, rel, uncond, imm, lat) ==
    [address |-> addr, grp |-> grp, rel |-> rel, uncond |-> uncond, imm |-> imm, latency |-> lat]

get_exit_jump(insn, next_insn) ==
    IF insn.grp = "none" THEN NoJump
    ELSE IF insn.imm # NoImm
         THEN IF insn.grp = "call" THEN Call(insn.imm, next_insn.address)
              ELSE IF insn.rel /\ insn.uncond THEN UnconditionalRelative(insn.imm)
              ELSE IF insn.rel THEN ConditionalRelative(insn.imm, next_insn.address)
              ELSE IF insn.uncond THEN UnconditionalAbsolute(insn.imm)
              ELSE ConditionalAbsolute(insn.imm, next_insn.address)
         ELSE IF insn.grp = "ret" THEN Ret(0)
              ELSE Indirect

-----------------------------------------------------------------------------
(* block.rs: Block.                                                        *)

\* Block::new
NewBlock(insn) == [leader |-> insn.address, instructions |-> <<insn>>, exit_jump |-> NoJump]
add_instruction(block, insn) == [block EXCEPT !.instructions = Append(@, insn)]
set_exit_jump(block, ej) == [block EXCEPT !.exit_jump = ej]

\* Targets that list the fall-through address of a call after its target.
get_targets_with_fall_through(block) ==
    LET ej == block.exit_jump
    IN IF IsConditional(ej) \/ ej.type = "Call" THEN <<ej.a, ej.b>>
       ELSE IF ej.type \in {"None", "Indirect"} THEN <<>>
       ELSE <<ej.a>>

\* Block::get_targets
get_targets(block) ==
    LET ej == block.exit_jump
    IN IF IsConditional(ej) THEN <<ej.a, ej.b>>
       ELSE IF ej.type \in {"None", "Indirect"} THEN <<>>
       ELSE <<ej.a>>

RECURSIVE SumLat(_)
SumLat(s) == IF s = <<>> THEN 0 ELSE Head(s).latency + SumLat(Tail(s))
get_latency(block) == SumLat(block.instructions)

modify_targets(block, new_target, target) ==
    LET ej == block.exit_jump
    IN IF IsConditional(ej)
       THEN IF ej.a = target THEN set_exit_jump(block, [ej EXCEPT !.a = new_target])
            ELSE IF ej.b = target THEN set_exit_jump(block, [ej EXCEPT !.b = new_target])
            ELSE block
       ELSE IF ej.type \in {"None", "Indirect"} THEN block
       ELSE set_exit_jump(block, [ej EXCEPT !.a = new_target])

-----------------------------------------------------------------------------
(* graph.rs: MappedGraph, a stable graph of blocks keyed by leader.        *)
(* nodes lists the leaders in node-index order, edges the edges in         *)
(* edge-index order; a removed edge keeps its slot with live = FALSE.      *)
(* node_index_map is the position of a leader in nodes, edge_index_map the *)
(* live edge of a (source, target) pair.                                   *)

NewGraph == [nodes |-> <<>>, edges |-> <<>>]

\* The graph a run of add_edge calls builds from the empty graph, one call
\* per listed target that is an allowed leader, for the blocks whose leaders
\* order lists (wcet.rs:187-197, cycle.rs:39-50).  add_edge adds the source
\* node, then the target node, then the edge, each unless it is already
\* there, so nodes and edges stand in the order they were first met.
graph_of(blks, order, allowed) ==
    LET Tg(i) == get_targets(blks[order[i]])
        calls == {<<i, j>> \in (1..Len(order)) \X (1..2) :
                     j <= Len(Tg(i)) /\ Tg(i)[j] \in allowed}
        Before(c, d) == c[1] < d[1] \/ (c[1] = d[1] /\ c[2] < d[2])
        Src(c) == order[c[1]]
        Tgt(c) == Tg(c[1])[c[2]]
        fresh == {c \in calls : ~\E d \in calls :
                                    Before(d, c) /\ Src(d) = Src(c) /\ Tgt(d) = Tgt(c)}
        seq == SortedBy(fresh, [c \in fresh |-> 2 * c[1] + c[2]])
        \* the place a leader is first met at: as source or as target of a call
        Met(x) == {2 * k - 1 : k \in {j \in 1..Len(seq) : Src(seq[j]) = x}}
                  \cup {2 * k : k \in {j \in 1..Len(seq) : Tgt(seq[j]) = x}}
        First(x) == CHOOSE m \in Met(x) : \A q \in Met(x) : m <= q
        met == {Src(c) : c \in fresh} \cup {Tgt(c) : c \in fresh}
    IN [nodes |-> SortedBy(met, [x \in met |-> First(x)]),
        edges |-> [k \in 1..Len(seq) |->
                     [s |-> Src(seq[k]), t |-> Tgt(seq[k]),
                      w |-> get_latency(blks[Tgt(seq[k])]), live |-> TRUE]]]

remove_edge(g, source, target) ==
    [g EXCEPT !.edges = [k \in 1..Len(g.edges) |->
        IF g.edges[k].s = source /\ g.edges[k].t = target
        THEN [g.edges[k] EXCEPT !.live = FALSE] ELSE g.edges[k]]]

\* The adjacency lists of the graph library start at the newest edge.
Rev(seq) == [k \in 1..Len(seq) |-> seq[Len(seq) + 1 - k]]

\* edges_directed(node, Incoming)
edges_incoming(g, leader) ==
    LET Keep(e) == e.live /\ e.t = leader IN Rev(SelectSeq(g.edges, Keep))

\* The distance of a node the source does not reach.
NegInf == 0 - 16777216
\* Err(NegativeCycle) of the longest-path functions.
NegativeCycle == [ok |-> FALSE, v |-> 0]
Ok(v) == [ok |-> TRUE, v |-> v]

\* The longest distance to n known after one more round of relaxation over
\* the live edges es (Bellman-Ford on negated weights).
Relaxed(es, dist, n) ==
    LET into == {k \in 1..Len(es) : es[k].live /\ es[k].t = n /\ dist[es[k].s] # NegInf}
        best == IF into = {} THEN NegInf
                ELSE LET k == CHOOSE k \in into :
                                \A j \in into : dist[es[k].s] + es[k].w >= dist[es[j].s] + es[j].w
                     IN dist[es[k].s] + es[k].w
    IN Max(dist[n], best)

RECURSIVE RelaxAll(_, _, _, _)
RelaxAll(order, es, dist, k) ==
    IF k > Len(order) THEN EmptyMap
    ELSE (order[k] :> Relaxed(es, dist, order[k])) @@ RelaxAll(order, es, dist, k + 1)

\* One round of relaxation for all the nodes ns.
Relax(ns, es, dist) == RelaxAll(SetToSeq(ns), es, dist, 1)

RECURSIVE RelaxRounds(_, _, _, _)
\* At most rounds rounds of relaxation; a round that changes nothing ends them.
RelaxRounds(ns, es, dist, rounds) ==
    LET next == Relax(ns, es, dist)
    IN IF rounds = 0 \/ next = dist THEN dist ELSE RelaxRounds(ns, es, next, rounds - 1)

\* The end of a search that takes the distances the rounds left as final.
LongestUnchecked(ns, es, dist) ==
    Ok(dist[CHOOSE m \in ns : \A n \in ns : dist[m] >= dist[n]])

\* The end of bellman_ford on the distances dist the rounds left: a round
\* that still changes a distance is a negative cycle; otherwise the minimum
\* over the finite distances, negated.
Longest(ns, es, dist) ==
    IF Relax(ns, es, dist) # dist THEN NegativeCycle
    ELSE Ok(dist[CHOOSE m \in ns : \A n \in ns : dist[m] >= dist[n]])

\* bellman_ford from source followed by the minimum over the finite
\* distances, negated: NegativeCycle, or the longest distance from source.
LongestFrom(ns, es, source) ==
    Longest(ns, es, RelaxRounds(ns, es, (source :> 0) @@ [n \in ns |-> NegInf],
                                Cardinality(ns) - 1))

\* MappedGraph::longest_path
longest_path(g, source) == LongestFrom(Range(g.nodes), g.edges, source)

-----------------------------------------------------------------------------
(* graph.rs: condense_cycles and MappedCondensedGraph.  A condensed graph  *)
(* lists its nodes (each an ordered list of block leaders) in node-index   *)
(* order and its edges, between node indices, in edge-index order; removed *)
(* nodes and edges keep their slot with live = FALSE.  node_index_map and  *)
(* edge_index_map are filled once by condense_cycles and never shrink.     *)

Succ(es, n) == {es[k].t : k \in {j \in 1..Len(es) : es[j].live /\ es[j].s = n}}

RECURSIVE ReachFrom(_, _)
\* The nodes reachable from the set S over the live edges es, S included.
ReachFrom(es, S) ==
    LET T == S \cup UNION {Succ(es, n) : n \in S}
    IN IF T = S THEN S ELSE ReachFrom(es, T)

\* The strongly connected component of n.
SccOf(es, n) == {m \in ReachFrom(es, {n}) : n \in ReachFrom(es, {m})}

\* The sources of the live edges into n, newest edge first: the neighbours
\* the library lists for n in the reversed graph.
RevNeighbors(es, n) ==
    LET Into(e) == e.live /\ e.t = n
        into == Rev(SelectSeq(es, Into))
    IN [k \in 1..Len(into) |-> into[k].s]

\* One turn of the library's post-order depth-first search over the reversed
\* graph: with an empty stack it moves to the first node not yet discovered;
\* a node met for the first time is discovered and its undiscovered
\* neighbours are pushed; a node met again is popped and, the first time,
\* finished.  st holds stack, discovered, finished and the finishing order.
DfsStep(nodes, es, st) ==
    IF st.stack = <<>>
    THEN LET rest == {k \in 1..Len(nodes) : nodes[k] \notin st.discovered}
         IN IF rest = {} THEN st
            ELSE [st EXCEPT !.stack = <<nodes[CHOOSE k \in rest : \A j \in rest : k <= j]>>]
    ELSE LET nx == st.stack[Len(st.stack)]
             NotSeen(m) == m \notin st.discovered \cup {nx}
         IN IF nx \notin st.discovered
            THEN [st EXCEPT !.discovered = @ \cup {nx},
                            !.stack = @ \o SelectSeq(RevNeighbors(es, nx), NotSeen)]
            ELSE [st EXCEPT !.stack = SubSeq(@, 1, Len(@) - 1),
                            !.finished = @ \cup {nx},
                            !.order = IF nx \in st.finished THEN @ ELSE Append(@, nx)]

RECURSIVE DfsRun(_, _, _)
\* The search, turn after turn until every node is finished.
DfsRun(nodes, es, st) ==
    IF st.stack = <<>> /\ Range(nodes) \subseteq st.discovered THEN st
    ELSE DfsRun(nodes, es, DfsStep(nodes, es, st))

\* The components in the order the library's condensation numbers them
\* (kosaraju_scc): the nodes taken by decreasing finishing time of the
\* search over the reversed graph, each component at its first node.
SccOrder(g) ==
    LET finish_order == DfsRun(g.nodes, g.edges,
                               [stack |-> <<>>, discovered |-> {}, finished |-> {},
                                order |-> <<>>]).order
        by_time == Rev(finish_order)
        comps == {SccOf(g.edges, n) : n \in Range(g.nodes)}
        At(c) == CHOOSE k \in 1..Len(by_time) :
                    by_time[k] \in c /\ \A j \in 1..Len(by_time) : by_time[j] \in c => k <= j
    IN SortedBy(comps, [c \in comps |-> At(c)])

\* The live edges of the graph components and all, the edges inside a
\* component becoming loops on its node.
CondenseEdgesKeepingInner(es, comp_of) ==
    LET live == {k \in 1..Len(es) : es[k].live}
        seq == SetToSeq(live)
    IN [r \in 1..Len(seq) |->
          [s |-> comp_of[es[seq[r]].s], t |-> comp_of[es[seq[r]].t],
           w |-> es[seq[r]].w, live |-> TRUE]]

\* The condensed edges: the live edges of the graph between different
\* components, placed where the first edge between the two components
\* stands, with the weight of the last one (the condensation's update_edge).
CondenseEdges(es, comp_of) ==
    LET cross == {k \in 1..Len(es) : es[k].live /\ comp_of[es[k].s] # comp_of[es[k].t]}
        Same(k, j) == comp_of[es[k].s] = comp_of[es[j].s] /\ comp_of[es[k].t] = comp_of[es[j].t]
        firsts == {k \in cross : ~\E j \in cross : j < k /\ Same(j, k)}
        seq == SetToSeq(firsts)
        Last(k) == CHOOSE j \in cross : Same(j, k) /\ \A i \in cross : Same(i, k) => i <= j
    IN [r \in 1..Len(seq) |->
          [s |-> comp_of[es[seq[r]].s], t |-> comp_of[es[seq[r]].t],
           w |-> es[Last(seq[r])].w, live |-> TRUE]]

\* The condensation of g whose components order lists: a node per
\* component, holding its blocks in the order of the nodes of g.
Condensed(g, order) ==
    LET InComp(k) == LET In(n) == n \in order[k] IN SelectSeq(g.nodes, In)
    IN [nodes |-> [k \in 1..Len(order) |-> [blocks |-> InComp(k), live |-> TRUE]],
        edges |-> CondenseEdges(g.edges,
                                [n \in Range(g.nodes) |->
                                   CHOOSE k \in 1..Len(order) : n \in order[k]])]

\* MappedGraph::condense_cycles
condense_cycles(g) == Condensed(g, SccOrder(g))

\* node_index_map of a condensed graph: the index of the node whose first
\* block has this leader, 0 when the map has no such key.
KeyIndex(cg, leader) ==
    IF \E k \in 1..Len(cg.nodes) : cg.nodes[k].blocks[1] = leader
    THEN CHOOSE k \in 1..Len(cg.nodes) : cg.nodes[k].blocks[1] = leader
    ELSE 0

\* MappedCondensedGraph::get_nodes: the indices of the nodes still in the graph.
cg_get_nodes(cg) == LET Live(k) == cg.nodes[k].live
                    IN SelectSeq([k \in 1..Len(cg.nodes) |-> k], Live)

\* MappedCondensedGraph::get_condensed_nodes
get_condensed_nodes(cg) ==
    LET Big(k) == cg.nodes[k].live /\ Len(cg.nodes[k].blocks) > 1
    IN SelectSeq([k \in 1..Len(cg.nodes) |-> k], Big)

\* MappedCondensedGraph::edges_directed(node, Incoming): the live edges into
\* the node of index n, newest first.
cg_edges_incoming(cg, n) ==
    LET Keep(e) == e.live /\ e.t = n IN Rev(SelectSeq(cg.edges, Keep))
cg_edges_outgoing(cg, n) ==
    LET Keep(e) == e.live /\ e.s = n IN Rev(SelectSeq(cg.edges, Keep))

\* MappedCondensedGraph::neighbors_directed, as node indices.
cg_neighbors_incoming(cg, n) ==
    LET es == cg_edges_incoming(cg, n) IN [k \in 1..Len(es) |-> es[k].s]
cg_neighbors_outgoing(cg, n) ==
    LET es == cg_edges_outgoing(cg, n) IN [k \in 1..Len(es) |-> es[k].t]

\* A removal that drops the edges at the node and keeps the node.
cg_remove_node_edges(cg, n) ==
    [cg EXCEPT !.edges = [k \in 1..Len(cg.edges) |->
        IF cg.edges[k].s = n \/ cg.edges[k].t = n
        THEN [cg.edges[k] EXCEPT !.live = FALSE] ELSE cg.edges[k]]]

\* MappedCondensedGraph::remove_node: the stable graph drops the node and
\* every edge at it; node_index_map keeps the key.
cg_remove_node(cg, n) ==
    [nodes |-> [cg.nodes EXCEPT ![n].live = FALSE],
     edges |-> [k \in 1..Len(cg.edges) |->
                  IF cg.edges[k].s = n \/ cg.edges[k].t = n
                  THEN [cg.edges[k] EXCEPT !.live = FALSE] ELSE cg.edges[k]]]

\* MappedCondensedGraph::remove_edge: edge_index_map keeps the key.
cg_remove_edge(cg, s, t) ==
    [cg EXCEPT !.edges = [k \in 1..Len(cg.edges) |->
        IF cg.edges[k].s = s /\ cg.edges[k].t = t
        THEN [cg.edges[k] EXCEPT !.live = FALSE] ELSE cg.edges[k]]]

\* MappedCondensedGraph::update_edge on an edge of the graph.
cg_update_edge(cg, s, t, weight) ==
    [cg EXCEPT !.edges = [k \in 1..Len(cg.edges) |->
        IF cg.edges[k].live /\ cg.edges[k].s = s /\ cg.edges[k].t = t
        THEN [cg.edges[k] EXCEPT !.w = weight] ELSE cg.edges[k]]]

\* MappedCondensedGraph::longest_path from the node of index n.
cg_longest_path(cg, n) ==
    LongestFrom({k \in 1..Len(cg.nodes) : cg.nodes[k].live} \cup {n}, cg.edges, n)

-----------------------------------------------------------------------------
(* Loop latency and the environment's bounds.                              *)

\* `x as u32` on a float: negative values saturate to 0.
ToU32(x) == IF x < 0 THEN 0 ELSE x

\* The latency of a loop from path, the longest path from its entry, and
\* exit_path, the longest path from its exit: the error of the first, or
\* cycle_path * max_cycles + directed_path.
Reconstructed(path, exit_path, entry_node_latency, max_cycles) ==
    IF ~path.ok THEN NegativeCycle
    ELSE LET cycle_path == path.v + entry_node_latency
             directed_path == cycle_path - exit_path.v
         IN Ok(cycle_path * max_cycles + directed_path)

\* MappedGraph::reconstruct_longest_path as cycle.rs:221-226 calls it, with
\* the iteration bound as its last argument.
reconstruct_longest_path(g, source, exit_block, entry_node_latency, max_cycles) ==
    Reconstructed(longest_path(g, source), longest_path(g, exit_block),
                  entry_node_latency, max_cycles)

\* MappedCondensedGraph::reconstruct_longest_path as cycle.rs:417-424 calls
\* it, on the nodes of index source and exit_node.
cg_reconstruct_longest_path(cg, source, exit_node, entry_node_latency, max_cycles) ==
    Reconstructed(cg_longest_path(cg, source), cg_longest_path(cg, exit_node),
                  entry_node_latency, max_cycles)

\* std::env::var(key).parse::<u32>() of a variable that may be unset.
EnvVar(e, name, addr, default) ==
    IF <<name, addr>> \in DOMAIN e THEN e[<<name, addr>>] ELSE default

\* The bound of a loop when no variable of the environment is read.
CycleBoundDefault(ctx, leader) == 1

\* cycle.rs:172-201: the iteration bound of the loop entered at leader.
CycleBound(ctx, leader) ==
    IF leader \in DOMAIN ctx.fictious_map
    THEN EnvVar(ctx.env, "CYCLE", ctx.fictious_map[leader], 1)
    ELSE EnvVar(ctx.env, "CYCLE", leader, 1)

\* cycle.rs:306-322: the iteration bound read in the nested-loop branch.
NestedCycleBound(ctx, leader) ==
    IF leader \in DOMAIN ctx.fictious_map
    THEN EnvVar(ctx.env, "CYCLE", ctx.fictious_map[leader], 1)
    ELSE 1

\* cycle.rs:234-253 and 430-449: the recursion bound of the function whose
\* recorded return address is current_ret_address.
RecursiveBound(ctx, current_ret_address) ==
    LET rf == ctx.recursive_functions
        hits == {ra \in DOMAIN rf : rf[ra] = current_ret_address
                                     /\ <<"RECURSIVE", ra>> \in DOMAIN ctx.env}
    IN IF hits = {} THEN 1 ELSE ctx.env[<<"RECURSIVE", CHOOSE ra \in hits : TRUE>>]

-----------------------------------------------------------------------------
(* cycle.rs: condensate_graph.  ctx holds what the function only reads     *)
(* (blocks, recursive_functions, fictious_map, env); st holds the          *)
(* condensed graph being resolved, entry_node_latency_map (elm),           *)
(* latency_map (lm) and, once the function has panicked, the reason.       *)

Targets(ctx, leader) == Range(get_targets(ctx.blocks[leader]))

RECURSIVE OuterPairs(_, _, _)
\* The pairs <<outer node, block of that node>> in the order the nested
\* loops of cycle.rs:82-84 and 339-341 meet them.
OuterPairs(cg, outs, k) ==
    IF k > Len(outs) THEN <<>>
    ELSE [j \in 1..Len(cg.nodes[outs[k]].blocks) |-> <<outs[k], cg.nodes[outs[k]].blocks[j]>>]
         \o OuterPairs(cg, outs, k + 1)

RECURSIVE ScanExits(_, _, _, _, _)
\* cycle.rs:82-105: the search for the exit blocks of the cycle.
ScanExits(ctx, acc, pairs, k, cycle_nodes) ==
    IF k > Len(pairs) THEN acc
    ELSE LET outer == pairs[k][1]
             outer_block == pairs[k][2]
             found == {j \in 1..Len(cycle_nodes) : outer_block \in Targets(ctx, cycle_nodes[j])}
             acc1 ==
               IF found = {} THEN acc
               ELSE LET cycle_block == cycle_nodes[CHOOSE j \in found : \A i \in found : j <= i]
                    IN IF cycle_block \in acc.entry_blocks
                       THEN [acc EXCEPT !.normal_cycle = TRUE,
                                        !.entry_block = cycle_block,
                                        !.entry_blocks = @ \ {cycle_block}]
                       ELSE [acc EXCEPT !.false_outer_blocks = MapPut(@, cycle_block, outer)]
         IN ScanExits(ctx, acc1, pairs, k + 1, cycle_nodes)

RECURSIVE RemoveNodes(_, _)
\* cycle.rs:112-119: remove_node for every outer node of a false exit.
RemoveNodes(cg, ns) ==
    IF ns = {} THEN cg
    ELSE LET n == CHOOSE n \in ns : TRUE IN RemoveNodes(cg_remove_node(cg, n), ns \ {n})

RECURSIVE RemoveEdgesInto(_, _, _)
\* cycle.rs:128-134: remove_edge for every predecessor that targets an entry
\* block left aside.
RemoveEdgesInto(cg, sources, n) ==
    IF sources = {} THEN cg
    ELSE LET p == CHOOSE p \in sources : TRUE
         IN RemoveEdgesInto(cg_remove_edge(cg, p, n), sources \ {p}, n)

RECURSIVE UpdateEdges(_, _, _, _)
UpdateEdges(cg, es, k, weight) ==
    IF k > Len(es) THEN cg
    ELSE UpdateEdges(cg_update_edge(cg, es[k].s, es[k].t, weight), es, k + 1, weight)

\* cycle.rs:260-273 and 483-495: the latency of the resolved cycle goes to
\* entry_node_latency_map when the node has no incoming edge, and on every
\* incoming edge otherwise.
FoldBack(ctx, cg, elm, n, cycle_node_latency) ==
    LET first == cg.nodes[n].blocks[1]
        node_incoming_edges == cg_edges_incoming(cg, n)
    IN IF node_incoming_edges = <<>>
       THEN [cg |-> cg, elm |-> MapPut(elm, first, ToU32(cycle_node_latency))]
       ELSE [cg |-> UpdateEdges(cg, node_incoming_edges, 1, cycle_node_latency),
             elm |-> MapPut(elm, first, get_latency(ctx.blocks[first]))]

RECURSIVE ScanNestedExits(_, _, _, _, _)
\* cycle.rs:339-361: the search for the exit node in the condensed cycle
\* graph ccg of a nested loop.
ScanNestedExits(ctx, acc, pairs, k, ccg) ==
    IF k > Len(pairs) THEN acc
    ELSE LET outer == pairs[k][1]
             outer_block == pairs[k][2]
             live == cg_get_nodes(ccg)
             found == {j \in 1..Len(live) :
                         outer_block \in Targets(ctx, ccg.nodes[live[j]].blocks[1])}
             acc1 ==
               IF found = {} THEN acc
               ELSE LET cycle_node == live[CHOOSE j \in found : \A i \in found : j <= i]
                        NotIt(e) == e # cycle_node
                        acc2 == IF cycle_node \in Range(acc.entry_nodes)
                                THEN [acc EXCEPT !.normal_cycle = TRUE,
                                                 !.entry_key = ccg.nodes[cycle_node].blocks[1],
                                                 !.entry_nodes = SelectSeq(@, NotIt)]
                                ELSE acc
                    IN IF ~acc2.normal_cycle
                       THEN [acc2 EXCEPT !.false_outer_nodes = MapPut(@, cycle_node, outer)]
                       ELSE acc2
         IN ScanNestedExits(ctx, acc1, pairs, k + 1, ccg)

\* cycle.rs:452-465: the latency of the first return block of the condensed
\* cycle graph other than the entry, and of the block after it; fail when
\* that node has no successor to index.
RetLatency(ctx, ccg, entry_block) ==
    LET live == cg_get_nodes(ccg)
        rets == {j \in 1..Len(live) :
                   /\ ctx.blocks[ccg.nodes[live[j]].blocks[1]].exit_jump.type = "Ret"
                   /\ ccg.nodes[live[j]].blocks[1] # entry_block}
    IN IF rets = {} THEN [fail |-> "", v |-> 0]
       ELSE LET node == live[CHOOSE j \in rets : \A i \in rets : j <= i]
                outs == cg_neighbors_outgoing(ccg, node)
            IN IF outs = <<>> THEN [fail |-> "index out of bounds", v |-> 0]
               ELSE [fail |-> "",
                     v |-> get_latency(ctx.blocks[ccg.nodes[node].blocks[1]])
                           + get_latency(ctx.blocks[ccg.nodes[outs[1]].blocks[1]])]

Failed(st, why) == [st EXCEPT !.fail = why]

\* cycle.rs:52-78: the blocks of the node of index n that a block of a
\* predecessor targets, or the first block of the node when there is none.
EntryBlocks(ctx, cg, n, incomings_vec) ==
    LET condensed_node == cg.nodes[n].blocks
        targeted == {inner \in Range(condensed_node) :
                       \E k \in 1..Len(incomings_vec) :
                          \E b \in Range(cg.nodes[incomings_vec[k]].blocks) :
                             inner \in Targets(ctx, b)}
    IN IF targeted = {} THEN {condensed_node[1]} ELSE targeted

\* cycle.rs:107-156: the exit block the scan leads to.
ExitBlock(scan) ==
    LET exits == DOMAIN scan.false_outer_blocks
    IN IF scan.normal_cycle \/ exits = {} THEN scan.entry_block
       ELSE IF Cardinality(exits) > 1
       THEN CHOOSE x \in exits \cup {scan.entry_block} :
               \A y \in exits \cup {scan.entry_block} : x >= y
       ELSE CHOOSE x \in exits : TRUE

\* cycle.rs:110-135: with the entry block as exit, the outer nodes of the
\* other exits are removed, and so are the edges from the predecessors that
\* target an entry block left aside.
DropFalseExits(ctx, cg, n, incomings_vec, scan) ==
    IF scan.normal_cycle
    THEN RemoveEdgesInto(
            RemoveNodes(cg, {scan.false_outer_blocks[x] : x \in DOMAIN scan.false_outer_blocks}),
            {incomings_vec[k] : k \in
               {j \in 1..Len(incomings_vec) :
                  \E b \in Range(cg.nodes[incomings_vec[j]].blocks) :
                     Targets(ctx, b) \cap scan.entry_blocks # {}}},
            n)
    ELSE cg

\* A cycle graph that keeps the edges into the entry block.
KeepBackEdges(cycle_graph, entry_block) == cycle_graph

\* cycle.rs:203-206: the edges into the entry block are removed.
BreakBackEdges(cycle_graph, entry_block) ==
    [cycle_graph EXCEPT !.edges =
       [k \in 1..Len(cycle_graph.edges) |->
          IF cycle_graph.edges[k].t = entry_block
          THEN [cycle_graph.edges[k] EXCEPT !.live = FALSE]
          ELSE cycle_graph.edges[k]]]

\* cycle.rs:227-274: the loop holds no other loop.
SimpleCycle(ctx, st, n, entry_block, cg1, cycle_node_latency) ==
    LET entry_node_latency == get_latency(ctx.blocks[entry_block])
        entry_jump == ctx.blocks[entry_block].exit_jump
        folded == FoldBack(ctx, cg1, st.elm, n, cycle_node_latency)
    IN IF entry_jump.type = "Ret" /\ ToU32(cycle_node_latency) < entry_node_latency
       THEN Failed(st, "attempt to subtract with overflow")
       ELSE [cg |-> folded.cg,
             elm |-> folded.elm,
             lm |-> IF entry_jump.type = "Ret"
                    THEN MapPut(st.lm, entry_jump.a,
                                (ToU32(cycle_node_latency) - entry_node_latency)
                                * RecursiveBound(ctx, entry_jump.a))
                    ELSE st.lm,
             fail |-> ""]

\* cycle.rs:426-495: the latency of a recursive function and the fold-back
\* of the nested loop.  st1 holds the maps the inner call returned.
NestedFold(ctx, st1, n, entry_block, cg1, ccg, nested_entry_latency, cycle_node_latency) ==
    LET entry_jump == ctx.blocks[entry_block].exit_jump
        max_rec_cycles == RecursiveBound(ctx, entry_jump.a)
        ret_latency == IF max_rec_cycles > 0 THEN RetLatency(ctx, ccg, entry_block)
                       ELSE [fail |-> "", v |-> 0]
        base_latency == ToU32(cycle_node_latency) - nested_entry_latency
        folded == FoldBack(ctx, cg1, st1.elm, n, cycle_node_latency)
    IN IF entry_jump.type = "Ret" /\ ret_latency.fail # ""
       THEN Failed(st1, ret_latency.fail)
       ELSE IF entry_jump.type = "Ret"
               /\ (base_latency < 0
                   \/ (max_rec_cycles > 0 /\ base_latency < ret_latency.v))
       THEN Failed(st1, "attempt to subtract with overflow")
       ELSE [cg |-> folded.cg,
             elm |-> folded.elm,
             lm |-> IF entry_jump.type = "Ret"
                    THEN MapPut(st1.lm, entry_jump.a,
                                IF max_rec_cycles > 0
                                THEN (base_latency - ret_latency.v
                                      + ret_latency.v * max_rec_cycles)
                                     * max_rec_cycles
                                ELSE base_latency * max_rec_cycles)
                    ELSE st1.lm,
             fail |-> ""]

\* cycle.rs:417-424: the unwrap of the latency of the nested loop, nested
\* being what reconstruct_longest_path returns.
NestedLatency(ctx, st1, n, entry_block, cg1, ccg, nested_entry_latency, exit_node, nested) ==
    IF ~nested.ok
    THEN Failed(st1, "unwrap on Err(NegativeCycle)")
    ELSE IF exit_node = 0
    THEN Failed(st1, "longest_path: no entry found for key")
    ELSE NestedFold(ctx, st1, n, entry_block, cg1, ccg, nested_entry_latency, nested.v)

\* cycle.rs:363-424: the exit node of the nested loop and its longest path.
\* scan is the scan of the outer branch, nscan the scan of this one.
NestedExit(ctx, st1, n, scan, cg1, ccg, bound, nscan) ==
    LET exits == DOMAIN scan.false_outer_blocks
        false_outer_nodes == nscan.false_outer_nodes
        exit_key ==
            IF nscan.normal_cycle \/ exits = {} THEN nscan.entry_key
            ELSE IF Cardinality(exits) > 1
            THEN CHOOSE x \in exits \cup {nscan.entry_key} :
                    \A y \in exits \cup {nscan.entry_key} : x >= y
            ELSE IF DOMAIN false_outer_nodes = {} THEN 0
            ELSE ccg.nodes[CHOOSE x \in DOMAIN false_outer_nodes : TRUE].blocks[1]
    IN IF nscan.normal_cycle /\ exits # {}
       THEN Failed(st1, "remove_node: no entry found for key")
       ELSE IF ~nscan.normal_cycle /\ Cardinality(exits) = 1
               /\ DOMAIN false_outer_nodes = {}
       THEN Failed(st1, "unwrap on None: no exit node")
       ELSE IF KeyIndex(ccg, nscan.entry_key) = 0
       THEN Failed(st1, "longest_path: no entry found for key")
       ELSE NestedLatency(ctx, st1, n, scan.entry_block, cg1, ccg, bound.latency,
                          KeyIndex(ccg, exit_key),
                          cg_reconstruct_longest_path(ccg, KeyIndex(ccg, nscan.entry_key),
                                                      KeyIndex(ccg, exit_key),
                                                      bound.latency, bound.max_cycles))

\* cycle.rs:285-300: the nodes of the condensed cycle graph ccg without
\* incoming edge that the first block of a node of the outer graph targets.
NestedEntryNodes(ctx, ccg, cg1) ==
    LET outer_live == cg_get_nodes(cg1)
        IsEntry(k) == /\ cg_edges_incoming(ccg, k) = <<>>
                      /\ \E j \in 1..Len(outer_live) :
                            ccg.nodes[k].blocks[1]
                               \in Targets(ctx, cg1.nodes[outer_live[j]].blocks[1])
    IN SelectSeq(cg_get_nodes(ccg), IsEntry)

\* cycle.rs:302-361: the entry node of the nested loop, its iteration bound,
\* its latency and the scan for its exit.  elm is the entry_node_latency_map
\* the inner call returned.
NestedEntry(ctx, st1, n, scan, cg1, ccg, entry_nodes) ==
    LET entry_key0 == IF entry_nodes # <<>> THEN ccg.nodes[entry_nodes[1]].blocks[1]
                      ELSE st1.cg.nodes[n].blocks[1]
    IN NestedExit(ctx, st1, n, scan, cg1, ccg,
                  [max_cycles |-> NestedCycleBound(ctx, entry_key0),
                   latency |-> IF entry_key0 \in DOMAIN st1.elm THEN st1.elm[entry_key0]
                               ELSE get_latency(ctx.blocks[entry_key0])],
                  ScanNestedExits(ctx,
                     [normal_cycle |-> FALSE, entry_key |-> entry_key0,
                      entry_nodes |-> entry_nodes, false_outer_nodes |-> EmptyMap],
                     OuterPairs(cg1, cg_neighbors_outgoing(cg1, n), 1), 1, ccg))

\* cycle.rs:275-505: the loop holds a nested loop; inner is what the call of
\* condensate_graph on the cycle graph returned.
NestedCycle(ctx, st, n, scan, cg1, inner) ==
    IF inner.fail # ""
    THEN Failed([st EXCEPT !.elm = inner.elm, !.lm = inner.lm], inner.fail)
    ELSE NestedEntry(ctx, [st EXCEPT !.elm = inner.elm, !.lm = inner.lm], n, scan, cg1,
                     inner.cg, NestedEntryNodes(ctx, inner.cg, cg1))

RECURSIVE condensate_graph(_, _, _)
RECURSIVE ResolveNodes(_, _, _, _)

\* cycle.rs:221-505: the two arms of the match on the longest path of the
\* cycle graph.
ResolveLatency(ctx, st, n, scan, cg1, cycle_graph, result) ==
    IF result.ok
    THEN SimpleCycle(ctx, st, n, scan.entry_block, cg1, result.v)
    ELSE NestedCycle(ctx, st, n, scan, cg1,
                     condensate_graph(ctx, cycle_graph, [elm |-> st.elm, lm |-> st.lm]))

\* cycle.rs:107-226: the exit block, the iteration bound, and the longest
\* path of the cycle graph without the edges into the entry block.
ResolveCycle(ctx, st, n, scan, cg1, cycle_graph) ==
    ResolveLatency(ctx, st, n, scan, cg1, cycle_graph,
                   reconstruct_longest_path(cycle_graph, scan.entry_block, ExitBlock(scan),
                                            get_latency(ctx.blocks[scan.entry_block]),
                                            CycleBound(ctx, scan.entry_block)))

\* cycle.rs:52-105: the entry block, the entry blocks left aside and the
\* false exits of the cycle at the node of index n of cg.
ScanCycle(ctx, cg, n, cycle_graph0, incomings_vec) ==
    ScanExits(ctx,
              [entry_block |-> cg.nodes[n].blocks[1],
               entry_blocks |-> EntryBlocks(ctx, cg, n, incomings_vec),
               normal_cycle |-> FALSE,
               false_outer_blocks |-> EmptyMap],
              OuterPairs(cg, cg_neighbors_outgoing(cg, n), 1), 1,
              cycle_graph0.nodes)

\* cycle.rs:67-206: the scan for the entry and exit blocks of the cycle.
ResolveEntries(ctx, st, n, cycle_graph0, incomings_vec) ==
    LET scan == ScanCycle(ctx, st.cg, n, cycle_graph0, incomings_vec)
    IN ResolveCycle(ctx, st, n, scan,
                    DropFalseExits(ctx, st.cg, n, incomings_vec, scan),
                    BreakBackEdges(cycle_graph0, scan.entry_block))

\* The body of the loop of cycle.rs:32-507 for the condensed node of index n.
ResolveNode(ctx, st, n) ==
    ResolveEntries(ctx, st, n,
                   graph_of(ctx.blocks, st.cg.nodes[n].blocks, Range(st.cg.nodes[n].blocks)),
                   cg_neighbors_incoming(st.cg, n))

\* cycle.rs:23-30: the nodes the loop of cycle.rs:32 resolves, in its order:
\* the nodes of several blocks, then every node whose first block targets its
\* own leader.
condensed_nodes(ctx, cg) ==
    LET SelfCycle(k) == cg.nodes[k].blocks[1] \in Targets(ctx, cg.nodes[k].blocks[1])
    IN get_condensed_nodes(cg) \o SelectSeq(cg_get_nodes(cg), SelfCycle)

\* The loop of cycle.rs:32-507 over the condensed nodes listed in todo_nodes.
ResolveNodes(ctx, st, todo_nodes, k) ==
    IF k > Len(todo_nodes) \/ st.fail # "" THEN st
    ELSE ResolveNodes(ctx, ResolveNode(ctx, st, todo_nodes[k]), todo_nodes, k + 1)

\* cycle.rs:13-510.  maps holds entry_node_latency_map and latency_map on
\* entry; the result holds the condensed graph and the two maps on return.
condensate_graph(ctx, original_graph, maps) ==
    LET condensed_graph == condense_cycles(original_graph)
    IN ResolveNodes(ctx, [cg |-> condensed_graph, elm |-> maps.elm, lm |-> maps.lm,
                          fail |-> ""],
                    condensed_nodes(ctx, condensed_graph), 1)

-----------------------------------------------------------------------------
(* wcet.rs: the graph of the blocks and the reduction to one number.       *)

\* wcet.rs:187-197: one edge per target that is the leader of a block, the
\* blocks taken in the order of their leaders.
build_graph(blks) == graph_of(blks, SetToSeq(DOMAIN blks), DOMAIN blks)

Context(blks, rec_fns, fict_map, e) ==
    [blocks |-> blks, recursive_functions |-> rec_fns, fictious_map |-> fict_map, env |-> e]

\* wcet.rs:241-245: the condensed nodes without incoming edge.
entry_nodes_of(cg) ==
    LET NoIncoming(k) == cg_edges_incoming(cg, k) = <<>>
    IN SelectSeq(cg_get_nodes(cg), NoIncoming)

\* wcet.rs:265-285: the entry node whose first block is first, path being
\* the longest path from it; acc holds wcet, recursive_delay and the reason
\* of a panic.
ReduceEntry(ctx, st, first, path, acc) ==
    LET entry_node_latency == IF first \in DOMAIN st.elm THEN st.elm[first]
                              ELSE get_latency(ctx.blocks[first])
        max_path_latency == ToU32(path.v)
    IN IF ~path.ok THEN [acc EXCEPT !.fail = "unwrap on Err(NegativeCycle)"]
       ELSE IF first \in DOMAIN ctx.recursive_functions
       THEN IF ctx.recursive_functions[first] \in DOMAIN st.lm
            THEN [acc EXCEPT !.recursive_delay =
                                @ + st.lm[ctx.recursive_functions[first]]]
            ELSE [acc EXCEPT !.fail = "unwrap on None: latency_map"]
       ELSE [acc EXCEPT !.wcet = Max(@, entry_node_latency + max_path_latency)]

RECURSIVE Reduce(_, _, _, _)
\* wcet.rs:264-286: the loop over the entry nodes.
Reduce(ctx, st, entry_nodes, acc) ==
    IF entry_nodes = <<>> \/ acc.fail # "" THEN acc
    ELSE Reduce(ctx, st, Tail(entry_nodes),
                ReduceEntry(ctx, st, st.cg.nodes[Head(entry_nodes)].blocks[1],
                            cg_longest_path(st.cg, Head(entry_nodes)), acc))

\* wcet.rs:288-290: the recursive delay is added to the maximum.
Total(acc) == [fail |-> acc.fail, wcet |-> acc.wcet + acc.recursive_delay]

\* wcet.rs:240-290: the number calculate_wcet returns for a condensed graph.
reduce_wcet(ctx, st) ==
    Total(Reduce(ctx, st, entry_nodes_of(st.cg),
                 [wcet |-> 0, recursive_delay |-> 0, fail |-> ""]))

\* wcet.rs:186-290 as one function of the blocks, the maps the duplication
\* filled and the environment.
wcet_of(blks, rec_fns, fict_map, e) ==
    LET ctx == Context(blks, rec_fns, fict_map, e)
        st == condensate_graph(ctx, build_graph(blks), [elm |-> EmptyMap, lm |-> EmptyMap])
    IN IF st.fail # "" THEN [fail |-> st.fail, wcet |-> 0] ELSE reduce_wcet(ctx, st)

-----------------------------------------------------------------------------
(* The decoded input: instruction streams and environments.                *)

\* instruction.rs, Instruction::from: the latency is the value of the
\* <ARCH>_<MNEMONIC> variable, 1 when it is not set.
Latency(lat_env, mnemonic) == IF mnemonic \in DOMAIN lat_env THEN lat_env[mnemonic] ELSE 1

\* One decoded instruction of mnemonic kind k with immediate t at address a.
Decode(a, k, t, lat_env) ==
    CASE k = "op"   -> Insn(a, "none", FALSE, FALSE, NoImm, Latency(lat_env, k))
      [] k = "jmp"  -> Insn(a, "jump", TRUE, TRUE, t, Latency(lat_env, k))
      [] k = "jcc"  -> Insn(a, "jump", TRUE, FALSE, t, Latency(lat_env, k))
      [] k = "jmpa" -> Insn(a, "jump", FALSE, TRUE, t, Latency(lat_env, k))
      [] k = "jcca" -> Insn(a, "jump", FALSE, FALSE, t, Latency(lat_env, k))
      [] k = "call" -> Insn(a, "call", TRUE, TRUE, t, Latency(lat_env, k))
      [] k = "ret"  -> Insn(a, "ret", FALSE, TRUE, NoImm, Latency(lat_env, k))
      [] k = "ind"  -> Insn(a, "jump", FALSE, TRUE, NoImm, Latency(lat_env, k))

\* The stream decoded from a sequence of <<kind, target index>> pairs laid out
\* from address base, one address per instruction; target index j designates
\* the j-th instruction, 0 an address outside the decoded stream.
DecodeAll(base, shape, lat_env) ==
    [k \in 1..Len(shape) |->
        Decode(base + k - 1, shape[k][1],
               IF shape[k][2] = 0 THEN base - 1 ELSE base + shape[k][2] - 1, lat_env)]

\* Bytes of one instruction of a fixed-width instruction set.
InsnSize == 4
\* The stream decoded from shape as DecodeAll does, with InsnSize addresses
\* per instruction.
DecodeFixedWidth(base, shape, lat_env) ==
    [k \in 1..Len(shape) |->
        Decode(base + InsnSize * (k - 1), shape[k][1],
               IF shape[k][2] = 0 THEN base - 1 ELSE base + InsnSize * (shape[k][2] - 1),
               lat_env)]

\* Every instruction an exhaustively generated stream of length n may hold
\* before its last position.
Alphabet(n) ==
    {<<"op", 0>>, <<"ret", 0>>, <<"ind", 0>>}
    \cup {<<k, t>> : k \in {"jmp", "jcc", "call"}, t \in 0..n}

\* The last instruction of a stream is only ever the second of a window
\* (wcet.rs:23-26, 99-105): only its address and latency are read.
LastAlphabet == {<<"op", 0>>, <<"ret", 0>>, <<"jmp", 1>>}

RECURSIVE Shapes(_, _)
\* All sequences of length m over Alphabet(n).
Shapes(m, n) ==
    IF m = 0 THEN {<<>>}
    ELSE {Append(s, x) : s \in Shapes(m - 1, n), x \in Alphabet(n)}

SmallShapes ==
    UNION {{Append(s, x) : s \in Shapes(n - 1, n), x \in LastAlphabet} : n \in 2..MaxLen}

Ops(n) == [k \in 1..n |-> <<"op", 0>>]

\* if/else: entry of 2, then-block of 4, else-block of 2, merge block of 1.
IfElse == Ops(1) \o <<<<"jcc", 7>>>> \o Ops(3) \o <<<<"jmp", 9>>>> \o Ops(3)

\* Loop whose header holds the exit branch: entry of 2, header of 3, body of 4
\* with the back-edge, exit block of 1.
WhileLoop == Ops(4) \o <<<<"jcc", 10>>>> \o Ops(3) \o <<<<"jmp", 3>>>> \o Ops(1)

\* The same blocks, the body holding the exit branch.
DoWhileLoop == Ops(4) \o <<<<"jmp", 6>>>> \o Ops(3) \o <<<<"jcc", 3>>>> \o Ops(1)

\* A loop inside a loop: outer header 2, inner header 3, both exits in the
\* headers.
NestedLoop ==
    <<<<"op", 0>>, <<"jcc", 8>>, <<"jcc", 6>>, <<"op", 0>>, <<"jmp", 3>>, <<"op", 0>>,
      <<"jmp", 2>>, <<"op", 0>>>>

\* A loop inside a loop, the outer loop left from its last block.
NestedDoWhile ==
    <<<<"op", 0>>, <<"jmp", 3>>, <<"op", 0>>, <<"jcc", 3>>, <<"op", 0>>, <<"op", 0>>,
      <<"jcc", 2>>, <<"op", 0>>>>

\* A loop of two blocks entered at both of them.
Irreducible ==
    <<<<"jcc", 4>>, <<"op", 0>>, <<"jmp", 4>>, <<"op", 0>>, <<"jcc", 2>>, <<"op", 0>>>>

\* A callee with a diamond, called from two call-sites.
TwoCallsDiamond ==
    <<<<"call", 4>>, <<"call", 4>>, <<"jmp", 0>>, <<"jcc", 6>>, <<"op", 0>>, <<"op", 0>>,
      <<"ret", 0>>, <<"op", 0>>>>

\* A callee with a loop, called from two call-sites.
TwoCallsLoop ==
    <<<<"call", 4>>, <<"call", 4>>, <<"jmp", 0>>, <<"op", 0>>, <<"jcc", 4>>, <<"ret", 0>>,
      <<"op", 0>>>>

\* A callee with two return blocks, called from two call-sites.
TwoCallsTwoRets ==
    <<<<"call", 4>>, <<"call", 4>>, <<"jmp", 0>>, <<"jcc", 6>>, <<"ret", 0>>, <<"ret", 0>>,
      <<"op", 0>>>>

\* A callee placed before its two callers.
CalleeFirst ==
    <<<<"jmp", 4>>, <<"op", 0>>, <<"ret", 0>>, <<"call", 2>>, <<"call", 2>>, <<"op", 0>>>>

\* A function that calls itself, called from two call-sites.
Recursion ==
    <<<<"call", 4>>, <<"call", 4>>, <<"jmp", 0>>, <<"jcc", 7>>, <<"call", 4>>, <<"op", 0>>,
      <<"ret", 0>>, <<"op", 0>>>>

\* A function that calls itself, placed before its caller: the call inside
\* it is the first call to it in address order.
RecursionFirst ==
    <<<<"jmp", 6>>, <<"jcc", 5>>, <<"call", 2>>, <<"op", 0>>, <<"ret", 0>>, <<"call", 2>>,
      <<"op", 0>>, <<"op", 0>>>>

\* A loop with two branches: a long one, and one that holds the exit of the
\* loop followed by an inner loop.
InnerLoopAfterExit ==
    <<<<"op", 0>>, <<"jcc", 7>>, <<"jcc", 13>>, <<"op", 0>>, <<"jcc", 4>>, <<"jmp", 2>>>>
    \o Ops(5) \o <<<<"jmp", 2>>, <<"op", 0>>>>

\* Two call-sites of one function, each in a branch of its own: the code
\* after the first call has latency 4, the code after the second latency 9.
\* The callee starts at instruction 17 and is followed by one instruction.
TwoTails(callee) ==
    <<<<"jcc", 7>>, <<"call", 17>>>> \o Ops(3) \o <<<<"jmp", 0>>, <<"call", 17>>>>
    \o Ops(8) \o <<<<"jmp", 0>>>> \o callee \o Ops(1)

\* Callees for TwoTails: one block; a diamond; a loop.
StraightCallee == <<<<"op", 0>>, <<"ret", 0>>>>
DiamondCallee == <<<<"jcc", 19>>, <<"op", 0>>, <<"ret", 0>>>>
LoopCallee == <<<<"op", 0>>, <<"jcc", 17>>, <<"ret", 0>>>>

\* A loop entered at its last block, left from two blocks of lower address
\* to two different blocks.
BottomEntryLoop ==
    <<<<"jmp", 4>>, <<"jcc", 7>>, <<"jcc", 8>>, <<"op", 0>>, <<"jmp", 2>>, <<"op", 0>>,
      <<"ret", 0>>, <<"op", 0>>, <<"op", 0>>>>

\* A loop of two blocks entered at its second block and left from its first.
MidEntryLoop ==
    <<<<"op", 0>>, <<"jmp", 5>>, <<"jcc", 6>>, <<"jmp", 3>>, <<"jmp", 4>>, <<"op", 0>>>>

\* A loop left from its header and, from its second block, to a block that
\* falls through to the block after the loop.
LoopWithBreak ==
    <<<<"op", 0>>, <<"jcc", 7>>, <<"jcc", 5>>, <<"jmp", 2>>, <<"op", 0>>, <<"op", 0>>,
      <<"op", 0>>, <<"op", 0>>>>

\* A function that calls itself and branches after the recursive call, placed
\* before its caller: the code after the recursive call is entered at a block
\* that does not end in the return.
RecursionBranchAfterCall ==
    <<<<"jmp", 7>>, <<"jcc", 4>>, <<"call", 2>>, <<"jcc", 6>>, <<"op", 0>>, <<"ret", 0>>,
      <<"call", 2>>, <<"op", 0>>, <<"op", 0>>>>

\* Two loops that overlap: the block that leaves the outer loop closes the
\* inner loop and is not the block the inner loop is entered at.
OverlappingLoops ==
    <<<<"op", 0>>, <<"op", 0>>, <<"op", 0>>, <<"jcc", 1>>, <<"jcc", 3>>, <<"op", 0>>>>

TwoTailsPrograms == {TwoTails(StraightCallee), TwoTails(DiamondCallee), TwoTails(LoopCallee)}

Programs ==
    {IfElse, WhileLoop, DoWhileLoop, NestedLoop, NestedDoWhile, Irreducible,
     TwoCallsDiamond, TwoCallsLoop, TwoCallsTwoRets, CalleeFirst, Recursion,
     RecursionFirst, InnerLoopAfterExit, BottomEntryLoop, MidEntryLoop, LoopWithBreak,
     RecursionBranchAfterCall, OverlappingLoops}
    \cup TwoTailsPrograms

\* n calls of the instruction at index f.
Calls(n, f) == [k \in 1..n |-> <<"call", f>>]
\* Two calls of one function, then straight-line code that reaches past
\* twice the address of the second call, then the function.
LongText == Calls(2, 1029) \o Ops(1026) \o <<<<"ret", 0>>, <<"op", 0>>>>
\* Fifty-three calls of one function at the start of the text, one at offset
\* 0x800 and one at offset 0xc00, then the function.
ManyCalls ==
    Calls(53, 771) \o Ops(459) \o Calls(1, 771) \o Ops(255) \o Calls(1, 771)
    \o Ops(1) \o <<<<"ret", 0>>, <<"op", 0>>>>
LongPrograms == {LongText, ManyCalls}

\* The real addresses of the blocks of g that lie on a cycle: the addresses
\* condensate_graph may look a CYCLE_ variable up for (cycle.rs:173-198).
CycleAddresses(g, fict_map) ==
    {IF n \in DOMAIN fict_map THEN fict_map[n] ELSE n :
        n \in {m \in Range(g.nodes) : m \in ReachFrom(g.edges, Succ(g.edges, m))}}

\* The variables a run may find set, among those it can read: CYCLE_0x<a>
\* for the real address a of a block on a cycle, RECURSIVE_0x<a> for a
\* function a recorded as recursive.
EnvKeys(g, fict_map, rec_fns) ==
    {<<"CYCLE", a>> : a \in CycleAddresses(g, fict_map)}
    \cup {<<"RECURSIVE", a>> : a \in DOMAIN rec_fns}

\* The environments a run is checked under: every assignment of bounds up
\* to MaxBound to at most MaxVars of these variables and, for the two loops
\* of the example, ten iterations of the loop at the header.
Envs(insns, g, fict_map, rec_fns) ==
    UNION {[S -> 0..MaxBound] :
             S \in {T \in SUBSET EnvKeys(g, fict_map, rec_fns) : Cardinality(T) <= MaxVars}}
    \cup IF insns \in {DecodeAll(BaseAddr, WhileLoop, EmptyMap),
                       DecodeAll(BaseAddr, DoWhileLoop, EmptyMap)}
         THEN {(<<"CYCLE", BaseAddr + 2>> :> 10)}
         ELSE {}

-----------------------------------------------------------------------------
(* graph.rs: MappedGraph and MappedCondensedGraph with their index maps.   *)
(* nodes and edges are the stable graph: node index -> leader of the node  *)
(* (of its first block for a condensed node), edge index -> end points and *)
(* weight.  The index of a new node or edge is one the stable graph does   *)
(* not use; which one is the graph library's choice.                       *)

\* MappedGraph::new; a MappedCondensedGraph starts empty in the same way.
new_mapped(kind) ==
    [kind |-> kind, nodes |-> EmptyMap, edges |-> EmptyMap,
     node_index_map |-> EmptyMap, edge_index_map |-> EmptyMap]

\* add_node (graph.rs:31-36, 464-469): a node is added at index ni when the
\* map holds no key for its leader.
mapped_add_node(g, leader, ni) ==
    IF leader \in DOMAIN g.node_index_map THEN g
    ELSE [g EXCEPT !.nodes = MapPut(@, ni, leader),
                   !.node_index_map = MapPut(@, leader, ni)]

\* add_edge (graph.rs:48-60, 486-498) after its two add_node calls: an edge
\* is added at index ei when the map holds no key for the pair.
mapped_add_edge(g, source, target, weight, ei) ==
    IF <<source, target>> \in DOMAIN g.edge_index_map THEN g
    ELSE [g EXCEPT !.edges = MapPut(@, ei, [s |-> g.node_index_map[source],
                                            t |-> g.node_index_map[target],
                                            w |-> weight]),
                   !.edge_index_map = MapPut(@, <<source, target>>, ei)]

\* The stable graph without the edge of index ei, if it has one.
WithoutEdge(g, ei) ==
    [g EXCEPT !.edges = [x \in (DOMAIN g.edges) \ {ei} |-> g.edges[x]]]

\* The stable graph without the node of index ni and the edges at it, if it
\* has such a node.
WithoutNode(g, ni) ==
    [g EXCEPT !.nodes = [x \in (DOMAIN g.nodes) \ {ni} |-> g.nodes[x]],
              !.edges = [x \in {e \in DOMAIN g.edges :
                                  ni \in DOMAIN g.nodes
                                      => g.edges[e].s # ni /\ g.edges[e].t # ni}
                         |-> g.edges[x]]]

\* remove_edge: MappedGraph (graph.rs:62-67) takes the key out of
\* edge_index_map, MappedCondensedGraph (graph.rs:500-503) leaves the map.
mapped_remove_edge(g, source, target) ==
    IF g.kind = "MappedGraph"
    THEN [WithoutEdge(g, g.edge_index_map[<<source, target>>])
            EXCEPT !.edge_index_map = MapDel(@, <<source, target>>)]
    ELSE WithoutEdge(g, g.edge_index_map[<<source, target>>])

\* remove_node: MappedGraph (graph.rs:38-42) takes the key out of
\* node_index_map, MappedCondensedGraph (graph.rs:471-474) leaves the map;
\* neither touches edge_index_map.
mapped_remove_node(g, leader) ==
    IF g.kind = "MappedGraph"
    THEN [WithoutNode(g, g.node_index_map[leader])
            EXCEPT !.node_index_map = MapDel(@, leader)]
    ELSE WithoutNode(g, g.node_index_map[leader])

-----------------------------------------------------------------------------
VARIABLES
    instructions,   \* the decoded stream handed to calculate_wcet
    env,            \* the CYCLE_ / RECURSIVE_ variables condensate_graph finds set:
                    \* <<name, address>> -> value
    pc,             \* the phase calculate_wcet is in
    index,          \* position of the current window of two instructions
    leaders, jumps, call_map, duplicated, counter,
    vacant_ret, current_block, blocks,
    todo,           \* entries of duplicated the duplication loop has not met yet
    recursive_functions, fictious_map,
    graph,          \* the MappedGraph of the blocks
    condensed_graph, condensed_entry_node_latency, latency_map,
    wcet,           \* the value calculate_wcet returns
    failure,        \* the reason of the panic when calculate_wcet panicked
    mapped          \* a MappedGraph or MappedCondensedGraph with its two index
                    \* maps, driven through its operations one at a time

vars == <<instructions, env, pc, index, leaders, jumps, call_map, duplicated,
          counter, vacant_ret, current_block, blocks, todo, recursive_functions,
          fictious_map, graph, condensed_graph, condensed_entry_node_latency,
          latency_map, wcet, failure, mapped>>

front == <<leaders, jumps, call_map, duplicated, counter, vacant_ret, current_block>>
back == <<graph, condensed_graph, condensed_entry_node_latency, latency_map, wcet, failure>>

\* The state calculate_wcet starts from (wcet.rs:15-20, 91-94).
Start(insns) ==
    /\ instructions = insns
    /\ env = EmptyMap
    /\ pc = "leaders"
    /\ index = 1
    /\ leaders = {}
    /\ jumps = EmptyMap
    /\ call_map = EmptyMap
    /\ duplicated = EmptyMap
    /\ counter = 0
    /\ vacant_ret = <<>>
    /\ current_block = NewBlock(insns[1])
    /\ blocks = EmptyMap
    /\ todo = {}
    /\ recursive_functions = EmptyMap
    /\ fictious_map = EmptyMap
    /\ graph = NewGraph
    /\ condensed_graph = [nodes |-> <<>>, edges |-> <<>>]
    /\ condensed_entry_node_latency = EmptyMap
    /\ latency_map = EmptyMap
    /\ wcet = 0
    /\ failure = ""
    /\ mapped = new_mapped("MappedGraph")

Init == \E s \in SmallShapes \cup Programs : Start(DecodeAll(BaseAddr, s, EmptyMap))

-----------------------------------------------------------------------------
(* wcet.rs:23-88, leader and jump discovery: one window per step.          *)

\* The effect of one window on (leaders, jumps, call_map, duplicated, counter).
ScanWindow(st, instruction, next_instruction) ==
    LET exit_jump == get_exit_jump(instruction, next_instruction)
        addr == instruction.address
        next == next_instruction.address
        st1 == IF exit_jump.type \notin {"None", "Call"}
               THEN [st EXCEPT !.jumps = MapPut(@, addr, exit_jump),
                               !.leaders = @ \cup {next}]
               ELSE st
    IN CASE IsUnconditional(exit_jump) \/ IsConditional(exit_jump) ->
              [st1 EXCEPT !.leaders = @ \cup {exit_jump.a}]
         [] exit_jump.type = "Indirect" ->
              [st1 EXCEPT !.jumps = MapDel(@, addr), !.leaders = @ \ {next}]
         [] exit_jump.type = "Call" ->
              LET target == exit_jump.a
              IN IF next # target /\ target # addr
                 THEN LET st2 == [st1 EXCEPT !.leaders = @ \cup {target}]
                          st3 ==
                            IF target \notin DOMAIN st2.call_map
                            THEN [st2 EXCEPT !.call_map = MapPut(@, target, next)]
                            ELSE LET fictious_address == Shl(addr, 1 + st2.counter)
                                     st4 ==
                                       IF <<target, addr>> \notin DOMAIN st2.duplicated
                                       THEN [st2 EXCEPT
                                               !.duplicated = MapPut(@, <<target, addr>>,
                                                                     <<fictious_address, next>>),
                                               !.leaders = @ \cup {fictious_address}]
                                       ELSE st2
                                 IN [st4 EXCEPT !.counter = @ + 1]
                      IN [st3 EXCEPT !.jumps = MapPut(@, addr, exit_jump),
                                     !.leaders = @ \cup {next}]
                 ELSE st1
         [] OTHER -> st1

LeaderStep ==
    /\ pc = "leaders"
    /\ index < Len(instructions)
    /\ \E st \in {ScanWindow([leaders |-> leaders, jumps |-> jumps, call_map |-> call_map,
                              duplicated |-> duplicated, counter |-> counter],
                             instructions[index], instructions[index + 1])} :
          /\ leaders' = st.leaders
          /\ jumps' = st.jumps
          /\ call_map' = st.call_map
          /\ duplicated' = st.duplicated
          /\ counter' = st.counter
    /\ IF index + 1 < Len(instructions)
       THEN index' = index + 1 /\ pc' = pc
       ELSE index' = 1 /\ pc' = "blocks"
    /\ UNCHANGED <<mapped, instructions, env, vacant_ret, current_block, blocks, todo,
                   recursive_functions, fictious_map, back>>

-----------------------------------------------------------------------------
(* wcet.rs:99-154, block assembly: one window per step.                    *)

\* A sealing that gives a return bound to no call-site the exit jump the scan
\* recorded for it.
SealWithPlaceholder(cur, vr, insn, next_insn) ==
    IF insn.address \in DOMAIN jumps
    THEN LET exit_jump == jumps[insn.address]
             vr1 == IF cur.leader \in DOMAIN call_map THEN Append(vr, cur.leader) ELSE vr
         IN IF exit_jump.type = "Ret"
            THEN IF cur.leader \in DOMAIN call_map
                 THEN [block |-> set_exit_jump(cur, Ret(call_map[cur.leader])),
                       vacant_ret |-> SubSeq(vr1, 1, Len(vr1) - 1)]
                 ELSE IF vr1 # <<>>
                 THEN LET top == vr1[Len(vr1)]
                      IN [block |-> IF top \in DOMAIN call_map
                                    THEN set_exit_jump(cur, Ret(call_map[top]))
                                    ELSE cur,
                          vacant_ret |-> SubSeq(vr1, 1, Len(vr1) - 1)]
                 ELSE [block |-> set_exit_jump(cur, exit_jump), vacant_ret |-> vr1]
            ELSE IF exit_jump.type = "Call"
            THEN [block |-> IF <<exit_jump.a, insn.address>> \in DOMAIN duplicated
                            THEN set_exit_jump(cur,
                                    Call(duplicated[<<exit_jump.a, insn.address>>][1],
                                         duplicated[<<exit_jump.a, insn.address>>][2]))
                            ELSE set_exit_jump(cur, exit_jump),
                  vacant_ret |-> vr1]
            ELSE [block |-> set_exit_jump(cur, exit_jump), vacant_ret |-> vr1]
    ELSE [block |-> set_exit_jump(cur, NextJ(next_insn.address)),
          vacant_ret |-> IF cur.leader \in DOMAIN call_map
                         THEN Append(vr, cur.leader) ELSE vr]

\* Sealing of current_block when next_insn is a leader (wcet.rs:108-139):
\* the sealed block and the vacant_ret stack after it.
Seal(cur, vr, insn, next_insn) ==
    IF insn.address \in DOMAIN jumps
    THEN LET exit_jump == jumps[insn.address]
             vr1 == IF cur.leader \in DOMAIN call_map THEN Append(vr, cur.leader) ELSE vr
         IN IF exit_jump.type = "Ret"
            THEN IF cur.leader \in DOMAIN call_map
                 THEN [block |-> set_exit_jump(cur, Ret(call_map[cur.leader])),
                       vacant_ret |-> SubSeq(vr1, 1, Len(vr1) - 1)]
                 ELSE IF vr1 # <<>>
                 THEN LET top == vr1[Len(vr1)]
                      IN [block |-> IF top \in DOMAIN call_map
                                    THEN set_exit_jump(cur, Ret(call_map[top]))
                                    ELSE cur,
                          vacant_ret |-> SubSeq(vr1, 1, Len(vr1) - 1)]
                 ELSE [block |-> cur, vacant_ret |-> vr1]
            ELSE IF exit_jump.type = "Call"
            THEN [block |-> IF <<exit_jump.a, insn.address>> \in DOMAIN duplicated
                            THEN set_exit_jump(cur,
                                    Call(duplicated[<<exit_jump.a, insn.address>>][1],
                                         duplicated[<<exit_jump.a, insn.address>>][2]))
                            ELSE set_exit_jump(cur, exit_jump),
                  vacant_ret |-> vr1]
            ELSE [block |-> set_exit_jump(cur, exit_jump), vacant_ret |-> vr1]
    ELSE [block |-> set_exit_jump(cur, NextJ(next_insn.address)),
          vacant_ret |-> IF cur.leader \in DOMAIN call_map
                         THEN Append(vr, cur.leader) ELSE vr]

BlockStep ==
    /\ pc = "blocks"
    /\ index < Len(instructions)
    /\ LET insn == instructions[index]
           next_insn == instructions[index + 1]
           is_leader == next_insn.address \in leaders
           sealed == Seal(current_block, vacant_ret, insn, next_insn)
           blocks1 == IF is_leader
                      THEN MapPut(blocks, sealed.block.leader, sealed.block)
                      ELSE blocks
           cur1 == IF is_leader THEN NewBlock(next_insn)
                   ELSE add_instruction(current_block, next_insn)
           last == index = Len(instructions) - 1
           cur2 == IF last THEN add_instruction(cur1, next_insn) ELSE cur1
       IN /\ vacant_ret' = IF is_leader THEN sealed.vacant_ret ELSE vacant_ret
          /\ current_block' = cur2
          /\ blocks' = IF last THEN MapPut(blocks1, cur2.leader, cur2) ELSE blocks1
          /\ IF last THEN index' = index /\ pc' = "duplicate"
             ELSE index' = index + 1 /\ pc' = pc
          /\ todo' = IF last THEN DOMAIN duplicated ELSE todo
    /\ UNCHANGED <<mapped, instructions, env, leaders, jumps, call_map, duplicated, counter,
                   recursive_functions, fictious_map, back>>

-----------------------------------------------------------------------------
(* wcet.rs:293-364, duplicate: the depth-first cloning of a callee.        *)
(* st holds what the function mutates through its references: blocks,      *)
(* recursive_functions, visited_nodes and fictious_map.                    *)

RECURSIVE duplicate(_, _, _, _, _, _)
RECURSIVE DuplicateTargets(_, _, _, _, _, _, _)

\* wcet.rs:311-358, the body of the loop for one target of the source
\* block: the state and the source block after it.
DuplicateTarget(st, source, target, fictious_address, ret_address, original_ret_address, call_target_address) ==
    IF target \notin DOMAIN st.blocks THEN [st |-> st, source |-> source]
    ELSE
      LET target_block == st.blocks[target]
          source1 == modify_targets(source, fictious_address, target)
          st1 == [st EXCEPT
                    !.visited_nodes = MapPut(@, target, fictious_address),
                    !.fictious_map = MapPut(@, fictious_address, target)]
          tt == get_targets(target_block)
          seen == {j \in 1..Len(tt) : tt[j] \in DOMAIN st1.visited_nodes}
      IN IF target_block.exit_jump = Ret(original_ret_address)
         THEN LET new_block == set_exit_jump(
                                  [target_block EXCEPT !.leader = fictious_address],
                                  Ret(ret_address))
              IN [st |-> [st1 EXCEPT !.blocks = MapPut(@, new_block.leader, new_block)],
                  source |-> source1]
         ELSE IF seen # {}
         THEN LET x == tt[CHOOSE j \in seen : \A i \in seen : j <= i]
                  st2 == IF target_block.exit_jump.type = "Call"
                            /\ x = call_target_address
                         THEN [st1 EXCEPT !.recursive_functions =
                                  MapPut(@, call_target_address,
                                         target_block.exit_jump.b)]
                         ELSE st1
                  new_block == modify_targets(
                                  [target_block EXCEPT !.leader = fictious_address],
                                  st2.visited_nodes[x], x)
              IN [st |-> [st2 EXCEPT !.blocks = MapPut(@, new_block.leader, new_block)],
                  source |-> source1]
         ELSE [st |-> duplicate(st1, target_block, fictious_address, ret_address,
                                original_ret_address, call_target_address),
               source |-> source1]

\* The loop of wcet.rs:310-361 from the k-th target of the source block on;
\* acc holds the state and the source block, and is what the loop yields
\* after the last target.
DuplicateTargets(acc, targets, k, fictious_address, ret_address, original_ret_address, call_target_address) ==
    IF k > Len(targets) THEN acc
    ELSE DuplicateTargets(DuplicateTarget(acc.st, acc.source, targets[k], fictious_address,
                                          ret_address, original_ret_address,
                                          call_target_address),
                          targets, k + 1, fictious_address + 1,
                          ret_address, original_ret_address, call_target_address)

\* wcet.rs:362-363: the source block takes the fictitious address and goes
\* into the block map.
InsertSource(done, source_fictious_address) ==
    [done.st EXCEPT !.blocks =
        MapPut(@, source_fictious_address,
               [done.source EXCEPT !.leader = source_fictious_address])]

duplicate(st, source, fictious_address, ret_address, original_ret_address, call_target_address) ==
    InsertSource(DuplicateTargets([st |-> [st EXCEPT
                                             !.visited_nodes = MapPut(@, source.leader,
                                                                      fictious_address),
                                             !.fictious_map = MapPut(@, fictious_address,
                                                                     source.leader)],
                                   source |-> source],
                                  get_targets(source), 1,
                                  Shl(fictious_address, 1 + 1), ret_address,
                                  original_ret_address, call_target_address),
                 fictious_address)

\* One iteration of the loop of wcet.rs:160-184, for the entry key of duplicated.
DuplicateEntry(st, key) ==
    LET call_target == key[1]
        fictious_address == duplicated[key][1]
        ret_address == duplicated[key][2]
    IN IF call_target \notin DOMAIN st.blocks THEN st
       ELSE LET new_block == st.blocks[call_target]
            IN IF new_block.exit_jump.type = "Ret"
               THEN LET b == set_exit_jump([new_block EXCEPT !.leader = fictious_address],
                                           Ret(ret_address))
                    IN [st EXCEPT !.blocks = MapPut(@, b.leader, b)]
               ELSE [duplicate([st EXCEPT !.visited_nodes = EmptyMap], new_block,
                               fictious_address, ret_address, call_map[call_target],
                               new_block.leader)
                     EXCEPT !.visited_nodes = EmptyMap]

\* The duplication loop meets the entries of the hash map in any order.
DuplicateStep ==
    /\ pc = "duplicate"
    /\ todo # {}
    /\ \E key \in todo :
          \E st \in {DuplicateEntry([blocks |-> blocks,
                                     recursive_functions |-> recursive_functions,
                                     visited_nodes |-> EmptyMap,
                                     fictious_map |-> fictious_map], key)} :
             /\ blocks' = st.blocks
             /\ recursive_functions' = st.recursive_functions
             /\ fictious_map' = st.fictious_map
             /\ todo' = todo \ {key}
    /\ UNCHANGED <<mapped, instructions, env, pc, index, leaders, jumps, call_map, duplicated,
                   counter, vacant_ret, current_block, back>>

-----------------------------------------------------------------------------
(* wcet.rs:186-290: graph, condensation, reduction.                        *)

GraphStep ==
    /\ pc = "duplicate"
    /\ todo = {}
    /\ graph' = build_graph(blocks)
    /\ env' \in Envs(instructions, graph', fictious_map, recursive_functions)
    /\ pc' = "condense"
    /\ UNCHANGED <<mapped, instructions, index, front, blocks, todo, recursive_functions,
                   fictious_map, condensed_graph, condensed_entry_node_latency,
                   latency_map, wcet, failure>>

CondenseStep ==
    /\ pc = "condense"
    /\ \E st \in {condensate_graph(Context(blocks, recursive_functions, fictious_map, env),
                                   graph, [elm |-> EmptyMap, lm |-> EmptyMap])} :
          /\ condensed_graph' = st.cg
          /\ condensed_entry_node_latency' = st.elm
          /\ latency_map' = st.lm
          /\ failure' = st.fail
          /\ pc' = IF st.fail = "" THEN "reduce" ELSE "panicked"
    /\ UNCHANGED <<mapped, instructions, env, index, front, blocks, todo, recursive_functions,
                   fictious_map, graph, wcet>>

ReduceStep ==
    /\ pc = "reduce"
    /\ \E r \in {reduce_wcet(Context(blocks, recursive_functions, fictious_map, env),
                             [cg |-> condensed_graph, elm |-> condensed_entry_node_latency,
                              lm |-> latency_map, fail |-> ""])} :
          /\ wcet' = r.wcet
          /\ failure' = r.fail
          /\ pc' = IF r.fail = "" THEN "done" ELSE "panicked"
    /\ UNCHANGED <<mapped, instructions, env, index, front, blocks, todo, recursive_functions,
                   fictious_map, graph, condensed_graph, condensed_entry_node_latency,
                   latency_map>>

Next == LeaderStep \/ BlockStep \/ DuplicateStep \/ GraphStep \/ CondenseStep \/ ReduceStep

Spec == Init /\ [][Next]_vars

\* Leader and jump discovery (wcet.rs:23-88) over texts of a few kilobytes of
\* fixed-width instructions.
LongInit == \E s \in LongPrograms : Start(DecodeFixedWidth(BaseAddr, s, EmptyMap))
LongNext == LeaderStep
LongSpec == LongInit /\ [][LongNext]_vars

-----------------------------------------------------------------------------
(* The operations of graph.rs on one mapped graph, in any order.           *)

\* The leaders of the blocks handed to the operations.
MaxLeaders == 2
GraphLeaders == 1..MaxLeaders
\* The indices the stable graph can hand out.
MaxIndex == 2
GraphIndices == 1..MaxIndex

program == <<instructions, env, pc, index, leaders, jumps, call_map, duplicated,
             counter, vacant_ret, current_block, blocks, todo, recursive_functions,
             fictious_map, graph, condensed_graph, condensed_entry_node_latency,
             latency_map, wcet, failure>>

GraphInit ==
    /\ instructions = <<>>
    /\ env = EmptyMap
    /\ pc = "graph"
    /\ index = 1
    /\ leaders = {}
    /\ jumps = EmptyMap
    /\ call_map = EmptyMap
    /\ duplicated = EmptyMap
    /\ counter = 0
    /\ vacant_ret = <<>>
    /\ current_block = [leader |-> 0, instructions |-> <<>>, exit_jump |-> NoJump]
    /\ blocks = EmptyMap
    /\ todo = {}
    /\ recursive_functions = EmptyMap
    /\ fictious_map = EmptyMap
    /\ graph = NewGraph
    /\ condensed_graph = [nodes |-> <<>>, edges |-> <<>>]
    /\ condensed_entry_node_latency = EmptyMap
    /\ latency_map = EmptyMap
    /\ wcet = 0
    /\ failure = ""
    /\ mapped \in {new_mapped("MappedGraph"), new_mapped("MappedCondensedGraph")}

\* add_node(block): the stable graph picks an index it does not use.
AddNode ==
    /\ pc = "graph"
    /\ \E leader \in GraphLeaders :
          \E ni \in GraphIndices \ DOMAIN mapped.nodes :
             mapped' = mapped_add_node(mapped, leader, ni)
    /\ UNCHANGED program

\* add_edge(source, target, weight): the two add_node calls, then the edge.
\* The call panics in the stable graph when a key of node_index_map leads to
\* an index that is no node of the graph.
AddEdge ==
    /\ pc = "graph"
    /\ \E source, target \in GraphLeaders :
          \E ni \in GraphIndices \ DOMAIN mapped.nodes :
             \E g1 \in {mapped_add_node(mapped, source, ni)} :
                \E nj \in GraphIndices \ DOMAIN g1.nodes :
                   \E g2 \in {mapped_add_node(g1, target, nj)} :
                      \E ei \in GraphIndices \ DOMAIN g2.edges :
                         /\ g2.node_index_map[source] \in DOMAIN g2.nodes
                         /\ g2.node_index_map[target] \in DOMAIN g2.nodes
                         /\ mapped' = mapped_add_edge(g2, source, target, 1, ei)
    /\ UNCHANGED program

\* remove_edge(source, target): panics when edge_index_map has no such key.
RemoveEdge ==
    /\ pc = "graph"
    /\ \E key \in DOMAIN mapped.edge_index_map :
          mapped' = mapped_remove_edge(mapped, key[1], key[2])
    /\ UNCHANGED program

\* remove_node(block): panics when node_index_map has no such key.
RemoveNode ==
    /\ pc = "graph"
    /\ \E leader \in DOMAIN mapped.node_index_map :
          mapped' = mapped_remove_node(mapped, leader)
    /\ UNCHANGED program

GraphNext == AddNode \/ AddEdge \/ RemoveEdge \/ RemoveNode
GraphSpec == GraphInit /\ [][GraphNext]_vars

-----------------------------------------------------------------------------
(* block.rs: a single Block under its own methods.  current_block is the   *)
(* block; its exit jump is any variant over the addresses of               *)
(* BlockTargets.                                                           *)

MaxTarget == 3
BlockTargets == 1..MaxTarget
MaxInsns == 3

ExitJumps ==
    {ConditionalRelative(t, n) : t \in BlockTargets, n \in BlockTargets}
    \cup {ConditionalAbsolute(t, n) : t \in BlockTargets, n \in BlockTargets}
    \cup {UnconditionalRelative(t) : t \in BlockTargets}
    \cup {UnconditionalAbsolute(t) : t \in BlockTargets}
    \cup {Ret(t) : t \in BlockTargets}
    \cup {Call(t, n) : t \in BlockTargets, n \in BlockTargets}
    \cup {NextJ(t) : t \in BlockTargets}
    \cup {Indirect}

around_block == <<instructions, env, pc, index, leaders, jumps, call_map, duplicated,
                  counter, vacant_ret, blocks, todo, recursive_functions,
                  fictious_map, graph, condensed_graph, condensed_entry_node_latency,
                  latency_map, wcet, failure, mapped>>

\* Block::new(instruction)
BlockInit ==
    /\ instructions = <<>>
    /\ env = EmptyMap
    /\ pc = "block"
    /\ index = 1
    /\ leaders = {}
    /\ jumps = EmptyMap
    /\ call_map = EmptyMap
    /\ duplicated = EmptyMap
    /\ counter = 0
    /\ vacant_ret = <<>>
    /\ current_block = NewBlock(Insn(BaseAddr, "none", FALSE, FALSE, NoImm, 1))
    /\ blocks = EmptyMap
    /\ todo = {}
    /\ recursive_functions = EmptyMap
    /\ fictious_map = EmptyMap
    /\ graph = NewGraph
    /\ condensed_graph = [nodes |-> <<>>, edges |-> <<>>]
    /\ condensed_entry_node_latency = EmptyMap
    /\ latency_map = EmptyMap
    /\ wcet = 0
    /\ failure = ""
    /\ mapped = new_mapped("MappedGraph")

\* add_instruction(instruction)
AddInstruction ==
    /\ pc = "block"
    /\ Len(current_block.instructions) < MaxInsns
    /\ current_block' = add_instruction(current_block,
                           Insn(BaseAddr + Len(current_block.instructions),
                                "none", FALSE, FALSE, NoImm, 1))
    /\ UNCHANGED around_block

\* set_exit_jump(exit_jump)
SetExitJump ==
    /\ pc = "block"
    /\ \E exit_jump \in ExitJumps : current_block' = set_exit_jump(current_block, exit_jump)
    /\ UNCHANGED around_block

\* modify_targets(new_target, target)
ModifyTargets ==
    /\ pc = "block"
    /\ \E new_target \in BlockTargets, target \in BlockTargets :
          current_block' = modify_targets(current_block, new_target, target)
    /\ UNCHANGED around_block

BlockNext == AddInstruction \/ SetExitJump \/ ModifyTargets
BlockSpec == BlockInit /\ [][BlockNext]_vars

-----------------------------------------------------------------------------
(* The blocks after assembly.                                              *)

\* Block assembly has ended and no callee is duplicated yet.
AfterAssembly == pc = "duplicate" /\ todo = DOMAIN duplicated

\* The instructions of the blocks bs[k], bs[k + 1], ... one after the other,
\* bs being a sequence of leaders of the block map.
RECURSIVE Concat(_, _)
Concat(bs, k) ==
    IF k > Len(bs) THEN <<>>
    ELSE blocks[bs[k]].instructions \o Concat(bs, k + 1)

\* C1: after block assembly the blocks partition the decoded stream: the
\* blocks in leader order, one after the other, give back the stream (so each
\* instruction, the last one included, is in one block, once), a block starts
\* at the first instruction or at a leader and only there, and no instruction
\* after the first of a block is a leader.
C1_BlocksPartitionStream ==
    AfterAssembly =>
        /\ Concat(SetToSeq(DOMAIN blocks), 1) = instructions
        /\ DOMAIN blocks = {instructions[i].address :
                              i \in {j \in 1..Len(instructions) :
                                       j = 1 \/ instructions[j].address \in leaders}}
        /\ \A a \in DOMAIN blocks :
              /\ blocks[a].instructions[1].address = a
              /\ \A k \in 2..Len(blocks[a].instructions) :
                    blocks[a].instructions[k].address \notin leaders

-----------------------------------------------------------------------------
(* The WCET of a program without loops.                                    *)

\* The blocks of the final block map the exit jump of block a designates.
BlockSucc(a) == Range(get_targets(blocks[a])) \cap DOMAIN blocks

\* The CFG of the final block map has no cycle (a recursive call is one).
AcyclicCFG ==
    /\ recursive_functions = EmptyMap
    /\ \A n \in Range(graph.nodes) : n \notin ReachFrom(graph.edges, Succ(graph.edges, n))

\* The largest sum of block latencies over the block paths that start at
\* block a, in a block map without cycle.
RECURSIVE PathFrom(_)
PathFrom(a) ==
    LET tails == {PathFrom(t) : t \in BlockSucc(a)}
    IN get_latency(blocks[a])
       + IF tails = {} THEN 0 ELSE CHOOSE x \in tails : \A y \in tails : y <= x

LongestBlockPath ==
    LET paths == {PathFrom(a) : a \in DOMAIN blocks}
    IN CHOOSE x \in paths : \A y \in paths : y <= x

\* C2: for a program without cycle and without recursion, run with the
\* default latencies and bounds, the returned WCET is the largest sum of
\* block latencies over all block paths of the CFG, single blocks and blocks
\* without any edge included.
C2_WcetIsLongestBlockPath ==
    (pc = "done" /\ env = EmptyMap /\ AcyclicCFG) => wcet = LongestBlockPath

-----------------------------------------------------------------------------
(* The copies of a callee.                                                 *)

\* The duplication loop of calculate_wcet has ended: the block map is final.
AfterDuplication ==
    \/ pc \in {"condense", "reduce", "done", "panicked"}
    \/ pc = "duplicate" /\ todo = {}

\* The blocks reached from the blocks of frontier without leaving a block
\* that returns; seen are the blocks already reached.
RECURSIVE BodyFrom(_, _)
BodyFrom(frontier, seen) ==
    LET new == UNION {BlockSucc(a) : a \in {b \in frontier : blocks[b].exit_jump.type # "Ret"}}
               \ seen
    IN IF new = {} THEN seen ELSE BodyFrom(new, seen \cup new)

\* The body of the callee as the call-site that enters it at entry sees it.
Body(entry) == BodyFrom({entry}, {entry})

\* The entries of callee f: its own for the first call-site, a fictitious
\* one for each later call-site.
Entries(f) ==
    ({f} \cup {duplicated[k][1] : k \in {d \in DOMAIN duplicated : d[1] = f}})
    \cap DOMAIN blocks

\* C3: after duplication the bodies a callee shows to its call-sites share
\* no block, up to the return of the callee, also when the callee holds a
\* loop or a diamond.
C3_CallSitesDisjoint ==
    AfterDuplication =>
        \A f \in DOMAIN call_map :
            \A e1, e2 \in Entries(f) : e1 # e2 => Body(e1) \cap Body(e2) = {}

-----------------------------------------------------------------------------
(* Calls and their returns.                                                *)

\* The blocks reachable from block a in the final block map, a included.
RECURSIVE ReachBlocks(_, _)
ReachBlocks(frontier, seen) ==
    LET new == UNION {BlockSucc(a) : a \in frontier} \ seen
    IN IF new = {} THEN seen ELSE ReachBlocks(new, seen \cup new)

\* The function a call to target enters: target itself, or the function the
\* fictitious entry target was cloned from.
Callee(target) == IF target \in DOMAIN fictious_map THEN fictious_map[target] ELSE target

\* The call of block a is matched: a block reachable from its target
\* returns to its fall-through address.
Matched(a) ==
    LET call == blocks[a].exit_jump
    IN /\ call.a \in DOMAIN blocks
       /\ \E b \in ReachBlocks({call.a}, {call.a}) : blocks[b].exit_jump = Ret(call.b)

\* C4: in the final block map every call is matched by a return to its
\* fall-through address reachable from its target, or its callee is recorded
\* in recursive_functions.
C4_CallsHaveReturns ==
    AfterDuplication =>
        \A a \in DOMAIN blocks :
            blocks[a].exit_jump.type = "Call" =>
                Matched(a) \/ Callee(blocks[a].exit_jump.a) \in DOMAIN recursive_functions

-----------------------------------------------------------------------------
(* The condensed graph.                                                    *)

\* The nodes still in the condensed graph, as node indices.
LiveNodes == {k \in 1..Len(condensed_graph.nodes) : condensed_graph.nodes[k].live}

\* C5: the graph condensate_graph returns has no cycle, whatever loops the
\* CFG holds, and no longest-path call reports a negative cycle.
C5_CondensedGraphAcyclic ==
    /\ pc \in {"reduce", "done"} =>
          \A k \in LiveNodes :
              k \notin ReachFrom(condensed_graph.edges, Succ(condensed_graph.edges, k))
    /\ failure # "unwrap on Err(NegativeCycle)"

\* The reduction has run on a condensed graph that holds a node made of three
\* blocks or more and an edge, for a block map in which a block branches to
\* itself.
C5_Witness ==
    /\ pc = "done"
    /\ \E k \in LiveNodes : Len(condensed_graph.nodes[k].blocks) >= 3
    /\ \E e \in Range(condensed_graph.edges) : e.live
    /\ \E a \in DOMAIN blocks : a \in BlockSucc(a)

-----------------------------------------------------------------------------
(* The WCET and the bounds of the environment.                             *)

\* Environment e2 sets the variables e1 sets, one of them to a larger value
\* and the others to the same value.
OneLarger(e1, e2) ==
    /\ DOMAIN e2 = DOMAIN e1
    /\ \E k \in DOMAIN e1 :
          /\ e2[k] > e1[k]
          /\ \A j \in DOMAIN e1 \ {k} : e2[j] = e1[j]

\* The run of the same program under environment e2.
RunUnder(e2) == wcet_of(blocks, recursive_functions, fictious_map, e2)

-----------------------------------------------------------------------------
(* The edges of the CFG.                                                   *)

\* calculate_wcet has built the graph of the blocks.
GraphBuilt == pc \in {"condense", "reduce", "done", "panicked"}

\* The addresses the exit jump of a block designates: taken and not_taken of
\* a conditional, the target of an unconditional jump, of Next and of Call,
\* the bound return address of Ret, none without exit jump or for Indirect.
Designated(ej) ==
    CASE ej.type \in {"ConditionalRelative", "ConditionalAbsolute"} -> {ej.a, ej.b}
      [] ej.type \in {"UnconditionalRelative", "UnconditionalAbsolute", "Next", "Call", "Ret"}
           -> {ej.a}
      [] OTHER -> {}

\* The out-neighbours of block a in the graph.
OutNeighbours(a) == Succ(graph.edges, a)

-----------------------------------------------------------------------------
(* Indirect branches.                                                      *)

\* The instruction is a branch the classification cannot resolve.
IsIndirectBranch(insn) == get_exit_jump(insn, insn).type = "Indirect"

\* C8: a block that holds an indirect branch has no outgoing edge in the
\* graph, whatever follows the branch.
C8_IndirectBlocksAreSinks ==
    GraphBuilt =>
        \A a \in DOMAIN blocks :
            (\E k \in 1..Len(blocks[a].instructions) :
                 IsIndirectBranch(blocks[a].instructions[k]))
            => OutNeighbours(a) = {}

-----------------------------------------------------------------------------
(* The two worked examples.                                                *)

\* The run has ended on the loop example: an entry block of 2 instructions,
\* a header of 3 at BaseAddr + 2, a body of 4 that branches back to the
\* header and an exit block of 1, with CYCLE_0x<header> = 10.  The loop is
\* left from its header in WhileLoop and from its body in DoWhileLoop.
LoopExampleDone(shape) ==
    /\ pc = "done"
    /\ instructions = DecodeAll(BaseAddr, shape, EmptyMap)
    /\ env = (<<"CYCLE", BaseAddr + 2>> :> 10)

\* What the loop contributes: the weight of the edge into the condensed node
\* of the loop.
LoopLatency ==
    LET n == KeyIndex(condensed_graph, BaseAddr + 2)
        into == cg_edges_incoming(condensed_graph, n)
    IN into[1].w

IfElseDone ==
    /\ pc = "done"
    /\ instructions = DecodeAll(BaseAddr, IfElse, EmptyMap)
    /\ env = EmptyMap

\* C10: on the if/else example the returned WCET is 7.
C10_IfElseIs7 == IfElseDone => wcet = 7

-----------------------------------------------------------------------------
(* A function called from two call-sites with tails of latency 4 and 9.    *)

\* The run is on TwoTails with this callee and the block map is final.
TwoTailsRun(callee) ==
    /\ AfterDuplication
    /\ instructions = DecodeAll(BaseAddr, TwoTails(callee), EmptyMap)

\* Every return block reached from the target of the call of block a
\* returns to the fall-through of that call.
ReturnsToOwnSite(a) ==
    \A r \in ReachBlocks({blocks[a].exit_jump.a}, {blocks[a].exit_jump.a}) :
        blocks[r].exit_jump.type = "Ret" => blocks[r].exit_jump.a = blocks[a].exit_jump.b

\* C11: with a function called from two call-sites whose tails have latency
\* 4 and 9, the callee copy of each call-site returns only to the
\* fall-through of that call-site, and the WCET is the latency of the path
\* through the call-site with the tail of 9: 13 with a callee of one block
\* of 2 instructions, 14 with a diamond whose longest path is 3.
C11_TwoCallSitesKeepTheirTails ==
    \A callee \in {StraightCallee, DiamondCallee, LoopCallee} :
        TwoTailsRun(callee) =>
            /\ \A a \in DOMAIN blocks :
                  blocks[a].exit_jump.type = "Call" => ReturnsToOwnSite(a)
            /\ pc = "done" /\ callee = StraightCallee => wcet = 13
            /\ pc = "done" /\ callee = DiamondCallee => wcet = 14

-----------------------------------------------------------------------------
(* Fictitious leaders of duplicated call-sites.                            *)

\* The addresses of the decoded instructions.
RealAddresses == {instructions[k].address : k \in 1..Len(instructions)}

\* C12: no fictitious leader of a duplicated call-site is the address of an
\* instruction of the decoded stream.
C12_FictitiousLeadersAreNotReal ==
    \A key \in DOMAIN duplicated : duplicated[key][1] \notin RealAddresses

\* C13: the fictitious leaders of the duplicated call-sites are pairwise
\* distinct in 64-bit arithmetic.
C13_FictitiousLeadersAreDistinct ==
    \A key, other \in DOMAIN duplicated :
        key # other => duplicated[key][1] # duplicated[other][1]

-----------------------------------------------------------------------------
(* Order of the duplication loop.                                          *)

\* The state the loop of wcet.rs:160-184 leaves when it meets the entries of
\* duplicated in the order keys.
RECURSIVE DuplicateAll(_, _)
DuplicateAll(st, keys) ==
    IF keys = <<>> THEN st
    ELSE DuplicateAll(DuplicateEntry(st, Head(keys)), Tail(keys))

\* The orders a hash map holding the keys S may be iterated in.
Orders(S) == {o \in [1..Cardinality(S) -> S] : Range(o) = S}

\* The result of the run that duplicates in the order keys.
WcetInOrder(keys) ==
    LET st == DuplicateAll([blocks |-> blocks, recursive_functions |-> recursive_functions,
                            visited_nodes |-> EmptyMap, fictious_map |-> fictious_map], keys)
    IN wcet_of(st.blocks, st.recursive_functions, st.fictious_map, env)

\* C14: the WCET calculate_wcet returns for a stream and an environment is
\* the same for every order in which the duplication loop meets the entries
\* of duplicated.
C14_WcetIndependentOfOrder ==
    AfterAssembly =>
        \A o1, o2 \in Orders(todo) : WcetInOrder(o1) = WcetInOrder(o2)

-----------------------------------------------------------------------------
(* longest_path.                                                           *)

\* No live edge of es lies on a cycle through a node of ns.
AcyclicEdges(ns, es) == \A n \in ns : n \notin ReachFrom(es, Succ(es, n))

NonNegativeWeights(es) == \A k \in 1..Len(es) : es[k].live => es[k].w >= 0

\* The largest sum of edge weights over the paths of live edges that start
\* at n, the empty path included, when no cycle is reachable from n.
RECURSIVE HeaviestPath(_, _)
HeaviestPath(es, n) ==
    LET sums == {es[k].w + HeaviestPath(es, es[k].t) :
                    k \in {j \in 1..Len(es) : es[j].live /\ es[j].s = n}} \cup {0}
    IN CHOOSE x \in sums : \A y \in sums : y <= x

\* An edge of positive weight on a cycle is reachable from source, and no
\* weight is negative.
PositiveCycleFrom(es, source) ==
    /\ NonNegativeWeights(es)
    /\ \E k \in 1..Len(es) :
          /\ es[k].live /\ es[k].w > 0
          /\ es[k].s \in ReachFrom(es, {source})
          /\ es[k].s \in ReachFrom(es, {es[k].t})

LiveCondensed == {k \in 1..Len(condensed_graph.nodes) : condensed_graph.nodes[k].live}

\* C15: on an acyclic graph with non-negative weights longest_path returns
\* the largest sum of edge weights over the paths from the source, the empty
\* path included, for the graph of blocks and for the condensed graph alike;
\* when a cycle of positive weight is reachable from the source it returns
\* the negative-cycle error.
C15_LongestPathIsHeaviestPath ==
    /\ pc = "condense" =>
          \A source \in Range(graph.nodes) :
              /\ (AcyclicEdges(Range(graph.nodes), graph.edges)
                    /\ NonNegativeWeights(graph.edges))
                 => longest_path(graph, source) = Ok(HeaviestPath(graph.edges, source))
              /\ PositiveCycleFrom(graph.edges, source)
                 => longest_path(graph, source) = NegativeCycle
    /\ pc = "reduce" =>
          \A n \in LiveCondensed :
              (AcyclicEdges(LiveCondensed, condensed_graph.edges)
                 /\ NonNegativeWeights(condensed_graph.edges))
              => cg_longest_path(condensed_graph, n)
                    = Ok(HeaviestPath(condensed_graph.edges, n))

\* The graph of blocks is built and acyclic, and two paths of different
\* weight leave one of its nodes.
C15_Witness ==
    /\ pc = "condense"
    /\ AcyclicEdges(Range(graph.nodes), graph.edges)
    /\ \E source \in Range(graph.nodes) :
          /\ HeaviestPath(graph.edges, source) >= 5
          /\ \E t1, t2 \in Succ(graph.edges, source) :
                HeaviestPath(graph.edges, t1) > HeaviestPath(graph.edges, t2)

-----------------------------------------------------------------------------
(* The cycles of the graph of blocks, as condensate_graph meets them.      *)

\* The nodes of the condensed graph cg the loop of cycle.rs:32 resolves.
CycleNodes(cg) ==
    LET SelfCycle(k) == cg.nodes[k].blocks[1]
                            \in Range(get_targets(blocks[cg.nodes[k].blocks[1]]))
    IN Range(get_condensed_nodes(cg)) \cup Range(SelectSeq(cg_get_nodes(cg), SelfCycle))

\* The cycle graph of the node of index n of cg.
CycleGraphOf(cg, n) == graph_of(blocks, cg.nodes[n].blocks, Range(cg.nodes[n].blocks))

\* The scan of the node of index n of cg.
ChosenScan(cg, n) ==
    ScanCycle(Context(blocks, recursive_functions, fictious_map, env), cg, n,
              CycleGraphOf(cg, n), cg_neighbors_incoming(cg, n))

\* The edges of the cycle of node n without those into its chosen entry.
BrokenEdges(cg, n, scan) == BreakBackEdges(CycleGraphOf(cg, n), scan.entry_block).edges

\* The value of CYCLE_0x<a> for the address a the entry stands for, 1 when
\* it is not set.
ConfiguredBound(entry) ==
    LET a == IF entry \in DOMAIN fictious_map THEN fictious_map[entry] ELSE entry
    IN IF <<"CYCLE", a>> \in DOMAIN env THEN env[<<"CYCLE", a>>] ELSE 1

\* cycle_path * N + (cycle_path - longest path from the exit).
ExpectedLoopLatency(es, entry, exit) ==
    LET cycle_path == HeaviestPath(es, entry) + get_latency(blocks[entry])
    IN cycle_path * ConfiguredBound(entry) + (cycle_path - HeaviestPath(es, exit))

\* The latency of node n in the condensed graph the condensation left: the
\* weight of its incoming edges, or its entry in the map of entry latencies.
HasLatency(cg, n, v) ==
    LET into == cg_edges_incoming(condensed_graph, n)
    IN IF into = <<>>
       THEN condensed_entry_node_latency[cg.nodes[n].blocks[1]] = v
       ELSE \A k \in 1..Len(into) : into[k].w = v

\* The cycle of node n, of edges es once the edges into its chosen entry are
\* removed, holds no other cycle.
SimpleLoop(cg, n, es) == AcyclicEdges(Range(cg.nodes[n].blocks), es)

SimpleLoopHasLatency(cg, n, scan, es) ==
    SimpleLoop(cg, n, es)
        => HasLatency(cg, n, ExpectedLoopLatency(es, scan.entry_block, ExitBlock(scan)))

SimpleLoopsHaveLatency(cg) ==
    \A n \in CycleNodes(cg) :
        \E scan \in {ChosenScan(cg, n)} :
            SimpleLoopHasLatency(cg, n, scan, BrokenEdges(cg, n, scan))

-----------------------------------------------------------------------------
(* The bound of the outer level of a nested loop.                          *)

\* cycle.rs:276-304: the entry block of the outer level of the nested loop
\* at node n of cg: the first block of the first entry node of the condensed
\* cycle graph, or the first block of the node.
OuterEntry(cg, n, scan) ==
    LET ctx == Context(blocks, recursive_functions, fictious_map, env)
        inner == condensate_graph(ctx, BreakBackEdges(CycleGraphOf(cg, n), scan.entry_block),
                                  [elm |-> EmptyMap, lm |-> EmptyMap])
        entry_nodes == NestedEntryNodes(ctx, inner.cg,
                          DropFalseExits(ctx, cg, n, cg_neighbors_incoming(cg, n), scan))
    IN IF entry_nodes # <<>> THEN inner.cg.nodes[entry_nodes[1]].blocks[1]
       ELSE cg.nodes[n].blocks[1]

\* The bound the outer level of a nested loop entered at entry is resolved
\* with is the configured one.
UsesConfiguredBound(entry) ==
    NestedCycleBound(Context(blocks, recursive_functions, fictious_map, env), entry)
        = ConfiguredBound(entry)

\* C17: the outer level of a nested loop is resolved with the value of
\* CYCLE_0x<entry address> of its entry block (of the original address for a
\* fictitious leader), whether the entry is a real address or a fictitious
\* leader.
C17_NestedLoopUsesConfiguredBound ==
    pc = "reduce" =>
        \E cg \in {condense_cycles(graph)} :
            \A n \in CycleNodes(cg) :
                \E scan \in {ChosenScan(cg, n)} :
                    ~SimpleLoop(cg, n, BrokenEdges(cg, n, scan))
                        => UsesConfiguredBound(OuterEntry(cg, n, scan))

-----------------------------------------------------------------------------
(* The exit block of a cycle without normal exit.                          *)

\* The scan found no normal exit and two or more false exits.
SeveralFalseExits(scan) ==
    ~scan.normal_cycle /\ Cardinality(DOMAIN scan.false_outer_blocks) >= 2

\* The false exit of the highest leader.
HighestFalseExit(scan) ==
    CHOOSE x \in DOMAIN scan.false_outer_blocks :
        \A y \in DOMAIN scan.false_outer_blocks : x >= y

\* C18: for a cycle without normal exit and with two or more false exits the
\* exit block is the false exit of the highest leader, wherever the leader
\* of the entry block lies.
C18_ExitIsHighestFalseExit ==
    pc = "condense" =>
        \E cg \in {condense_cycles(graph)} :
            \A n \in CycleNodes(cg) :
                \E scan \in {ChosenScan(cg, n)} :
                    SeveralFalseExits(scan) => ExitBlock(scan) = HighestFalseExit(scan)

-----------------------------------------------------------------------------
(* The entry block of a cycle.                                             *)

\* The blocks of the node of index n of cg that a block outside the node
\* targets.
ExternallyTargeted(cg, n) ==
    {b \in Range(cg.nodes[n].blocks) :
        \E a \in (DOMAIN blocks) \ Range(cg.nodes[n].blocks) :
            b \in Range(get_targets(blocks[a]))}

\* C19: the entry block chosen for a cycle is a block of the cycle that a
\* block outside the cycle targets whenever there is one, with a normal exit,
\* with false exits and without exit alike.
C19_EntryIsExternallyTargeted ==
    pc = "condense" =>
        \E cg \in {condense_cycles(graph)} :
            \A n \in CycleNodes(cg) :
                ExternallyTargeted(cg, n) # {}
                    => ChosenScan(cg, n).entry_block \in ExternallyTargeted(cg, n)

-----------------------------------------------------------------------------
(* The outer graph of a cycle with a normal exit and false exits.          *)

\* The scan found a normal exit and at least one false exit.
NormalAndFalseExits(scan) == scan.normal_cycle /\ DOMAIN scan.false_outer_blocks # {}

\* cg1 holds every node of cg, and every edge of cg that does not start at
\* the node of index n as cg holds it.
KeepsOuterGraph(cg, n, cg1) ==
    /\ \A k \in 1..Len(cg.nodes) : cg.nodes[k].live => cg1.nodes[k].live
    /\ \A k \in 1..Len(cg.edges) : cg.edges[k].s # n => cg1.edges[k] = cg.edges[k]

\* C20: for a cycle with a normal exit and false exits, leaving the false
\* exits aside removes only edges that start at the cycle: every node stays
\* in the condensed graph and every edge that does not start at the cycle is
\* unchanged.
C20_OnlyExitEdgesRemoved ==
    pc = "reduce" =>
        \E cg \in {condense_cycles(graph)} :
            \A n \in CycleNodes(cg) :
                \E scan \in {ChosenScan(cg, n)} :
                    NormalAndFalseExits(scan)
                        => KeepsOuterGraph(cg, n,
                              DropFalseExits(Context(blocks, recursive_functions,
                                                     fictious_map, env),
                                             cg, n, cg_neighbors_incoming(cg, n), scan))

\* The outer nodes of the false exits of the scan.
FalseExitNodes(scan) == {scan.false_outer_blocks[x] : x \in DOMAIN scan.false_outer_blocks}

\* The node of index p of cg holds a block that targets an entry block the
\* scan left aside.
TargetsEntryLeftAside(cg, p, scan) ==
    \E b \in Range(cg.nodes[p].blocks) :
        Range(get_targets(blocks[b])) \cap scan.entry_blocks # {}

\* The condensed graph the condensation left holds the nodes of cg but the
\* outer nodes of the false exits, and the edges of cg but those at these
\* nodes and those into node n from a node that targets an entry block left
\* aside.
OnlyFalseExitNodesRemoved(cg, n, scan) ==
    /\ \A k \in 1..Len(cg.nodes) :
          condensed_graph.nodes[k].live <=> (cg.nodes[k].live /\ k \notin FalseExitNodes(scan))
    /\ \A k \in 1..Len(cg.edges) :
          condensed_graph.edges[k].live
             <=> /\ cg.edges[k].live
                 /\ cg.edges[k].s \notin FalseExitNodes(scan)
                 /\ cg.edges[k].t \notin FalseExitNodes(scan)
                 /\ ~(cg.edges[k].t = n /\ TargetsEntryLeftAside(cg, cg.edges[k].s, scan))

\* C20, amended: for a cycle with a normal exit and false exits, the only
\* cycle of the program, the condensation removes the outer nodes of the
\* false exits with every edge at them, and the edges into the cycle from the
\* nodes that target an entry block left aside; every other node stays and
\* every other edge stays.
C20_FalseExitNodesRemoved ==
    pc = "reduce" =>
        \E cg \in {condense_cycles(graph)} :
            \A n \in CycleNodes(cg) :
                \E scan \in {ChosenScan(cg, n)} :
                    (CycleNodes(cg) = {n} /\ NormalAndFalseExits(scan))
                        => OnlyFalseExitNodesRemoved(cg, n, scan)

\* A cycle with a normal exit and a false exit has been resolved, and an
\* edge that does not start at the cycle went with the outer node of the
\* false exit.
C20_Witness ==
    /\ pc = "reduce"
    /\ \E cg \in {condense_cycles(graph)} :
          \E n \in CycleNodes(cg) :
              \E scan \in {ChosenScan(cg, n)} :
                  /\ CycleNodes(cg) = {n}
                  /\ NormalAndFalseExits(scan)
                  /\ \E k \in 1..Len(cg.edges) :
                        /\ cg.edges[k].live /\ cg.edges[k].s # n
                        /\ ~condensed_graph.edges[k].live

-----------------------------------------------------------------------------
(* Recursive callees.                                                      *)

\* The index in the stream of the instruction at address a, 0 when no
\* instruction starts there.
IndexOf(a) ==
    IF \E k \in 1..Len(instructions) : instructions[k].address = a
    THEN CHOOSE k \in 1..Len(instructions) : instructions[k].address = a
    ELSE 0

\* The addresses control goes to after the k-th instruction without entering
\* a callee: a call continues at its fall-through address.
FlowAfter(k) ==
    LET insn == instructions[k]
        next == IF k < Len(instructions) THEN {instructions[k + 1].address} ELSE {}
    IN CASE insn.grp \in {"none", "call"} -> next
         [] insn.grp = "ret" -> {}
         [] insn.imm = NoImm -> {}
         [] insn.uncond -> {insn.imm}
         [] OTHER -> {insn.imm} \cup next

\* The addresses of the instructions of the function entered at the
\* addresses of frontier.
RECURSIVE FunctionFrom(_, _)
FunctionFrom(frontier, seen) ==
    LET new == {a \in UNION {FlowAfter(IndexOf(b)) : b \in frontier} : IndexOf(a) # 0} \ seen
    IN IF new = {} THEN seen ELSE FunctionFrom(new, seen \cup new)

FunctionBody(f) == IF IndexOf(f) = 0 THEN {} ELSE FunctionFrom({f}, {f})

\* The call-sites of f the leader scan records: calls it meets in a window,
\* whose target is neither the call itself nor the next instruction.
CallSites(f) ==
    {instructions[k].address :
        k \in {j \in 1..(Len(instructions) - 1) :
                  /\ instructions[j].grp = "call"
                  /\ instructions[j].imm = f
                  /\ instructions[j].address # f
                  /\ instructions[j + 1].address # f}}

\* The address after the instruction at address a.
FallThrough(a) == instructions[IndexOf(a) + 1].address

\* Callee f holds one call to its own entry, at address a, and is called
\* from outside its body.
RecursiveAt(f, a) ==
    /\ CallSites(f) \cap FunctionBody(f) = {a}
    /\ CallSites(f) \ FunctionBody(f) # {}

\* C21: after duplication a callee that calls its own entry and is called
\* from outside its body is recorded in recursive_functions with the
\* fall-through address of the recursive call, whichever of the two
\* call-sites comes first in the stream.
C21_RecursionIsRecorded ==
    AfterDuplication =>
        \A f \in DOMAIN call_map :
            \A a \in CallSites(f) :
                RecursiveAt(f, a)
                    => /\ f \in DOMAIN recursive_functions
                       /\ recursive_functions[f] = FallThrough(a)

-----------------------------------------------------------------------------
(* The reduction of the condensed graph to one number.                     *)

\* The entry nodes of the condensed graph the reduction runs over.
EntryNodes == Range(entry_nodes_of(condensed_graph))

\* The recursive callees with a block in node k of the condensed graph.
CalleesOf(k) == Range(condensed_graph.nodes[k].blocks) \cap DOMAIN recursive_functions

RecursiveEntries == {k \in EntryNodes : CalleesOf(k) # {}}

\* The latency the reduction starts the path of entry node k with.
EntryLatency(k) ==
    LET first == condensed_graph.nodes[k].blocks[1]
    IN IF first \in DOMAIN condensed_entry_node_latency
       THEN condensed_entry_node_latency[first]
       ELSE get_latency(blocks[first])

\* The largest element of a set of naturals, 0 for the empty set.
MaxOf(S) == IF S = {} THEN 0 ELSE CHOOSE x \in S : \A y \in S : y <= x

\* The sum of latency_map over the return addresses of the callees of the
\* nodes of S.
RECURSIVE RecursiveDelay(_)
RecursiveDelay(S) ==
    IF S = {} THEN 0
    ELSE LET k == CHOOSE x \in S : TRUE
         IN latency_map[recursive_functions[CHOOSE f \in CalleesOf(k) : TRUE]]
            + RecursiveDelay(S \ {k})

\* Every recursive entry node has its return address in latency_map.
RecursiveEntriesHaveLatency ==
    \A k \in RecursiveEntries :
        \A f \in CalleesOf(k) : recursive_functions[f] \in DOMAIN latency_map

\* C22: the reduction does not fail on a return address missing from
\* latency_map, and the value calculate_wcet returns is the largest of entry
\* latency plus longest path over the entry nodes that hold no recursive
\* callee, plus the sum of latency_map over the return addresses of the entry
\* nodes that hold one, whichever block of such a node is its first.
C22_WcetIsMaxPlusRecursiveDelay ==
    /\ failure # "unwrap on None: latency_map"
    /\ pc = "done" =>
          /\ RecursiveEntriesHaveLatency
          /\ wcet = MaxOf({EntryLatency(k) + HeaviestPath(condensed_graph.edges, k) :
                              k \in EntryNodes \ RecursiveEntries})
                    + RecursiveDelay(RecursiveEntries)

-----------------------------------------------------------------------------
(* The traversal of duplicate.                                             *)

\* The fictitious leaders one iteration of the duplication loop gives to
\* clones of the real block r.
NewClonesOf(r) == {a \in DOMAIN fictious_map' \ DOMAIN fictious_map : fictious_map'[a] = r}

\* C23: duplicate terminates, and for one duplicated call-site it clones each
\* real block of the callee at most once, also when the callee holds a loop,
\* a diamond or a call to itself.
C23_BlocksClonedOnce ==
    [][DuplicateStep => \A r \in RealAddresses : Cardinality(NewClonesOf(r)) <= 1]_vars

-----------------------------------------------------------------------------
(* The leaders after the scan.                                             *)

\* The exit jump the scan reads in its k-th window.
WindowJump(k) == get_exit_jump(instructions[k], instructions[k + 1])

\* The call of the k-th window is one the scan does not ignore as external.
InternalCall(k) ==
    /\ WindowJump(k).type = "Call"
    /\ instructions[k + 1].address # WindowJump(k).a
    /\ instructions[k].address # WindowJump(k).a

\* C24: when leader discovery has ended, leaders holds the target of every
\* direct jump and of every call that is not ignored, met in a window of the
\* scan, and the address after every branch kept in jumps: no step of the
\* scan has removed such an address.
C24_LeadersHoldTargets ==
    pc # "leaders" =>
        \A k \in 1..(Len(instructions) - 1) :
            /\ (IsConditional(WindowJump(k)) \/ IsUnconditional(WindowJump(k)))
                  => WindowJump(k).a \in leaders
            /\ InternalCall(k) => WindowJump(k).a \in leaders
            /\ instructions[k].address \in DOMAIN jumps
                  => instructions[k + 1].address \in leaders

-----------------------------------------------------------------------------
(* Returns bound to no call-site.                                          *)

\* The assembly is about to seal current_block at a return that neither
\* call_map nor the vacant_ret stack can bind.
SealsUnboundRet ==
    /\ pc = "blocks"
    /\ index < Len(instructions)
    /\ instructions[index + 1].address \in leaders
    /\ instructions[index].address \in DOMAIN jumps
    /\ jumps[instructions[index].address].type = "Ret"
    /\ current_block.leader \notin DOMAIN call_map
    /\ vacant_ret = <<>>

\* The block just sealed designates no block of the block map.
SealedIsSink ==
    Range(get_targets(blocks'[current_block.leader])) \cap DOMAIN blocks' = {}

\* C25: a block that ends in a return bound neither through call_map nor
\* through vacant_ret is sealed with the exit jump Ret(0) and has no
\* successor.
C25_UnboundRetIsRetZero ==
    [][(SealsUnboundRet /\ BlockStep)
          => /\ blocks'[current_block.leader].exit_jump = Ret(0)
             /\ SealedIsSink]_vars

\* C25, amended: such a block is sealed without exit jump (the Ret(0) of the
\* scan stays in jumps only), with the instructions it had, and has no
\* successor.
C25_UnboundRetHasNoExitJump ==
    [][(SealsUnboundRet /\ BlockStep)
          => /\ blocks'[current_block.leader].exit_jump = NoJump
             /\ blocks'[current_block.leader].instructions = current_block.instructions
             /\ jumps'[instructions[index].address] = Ret(0)
             /\ SealedIsSink]_vars

\* A block that ends in a return the scan recorded has been sealed without
\* exit jump before the end of the stream.
C25_Witness ==
    /\ pc = "blocks"
    /\ \E b \in DOMAIN blocks :
          \E last \in {blocks[b].instructions[Len(blocks[b].instructions)]} :
             /\ last.grp = "ret"
             /\ last.address \in DOMAIN jumps
             /\ jumps[last.address] = Ret(0)
             /\ b \notin DOMAIN call_map
             /\ blocks[b].exit_jump = NoJump

-----------------------------------------------------------------------------
(* The loops one call of condensate_graph resolves.                        *)

\* The number of times n occurs in the sequence seq.
Occurrences(seq, n) == Cardinality({k \in 1..Len(seq) : seq[k] = n})

\* Node k of cg is a loop: several blocks, or one block that targets its own
\* leader.
IsLoop(cg, k) ==
    /\ cg.nodes[k].live
    /\ \/ Len(cg.nodes[k].blocks) > 1
       \/ cg.nodes[k].blocks[1] \in Range(get_targets(blocks[cg.nodes[k].blocks[1]]))

\* Each loop of cg occurs once in the list, and nothing else occurs in it.
EachLoopOnce(cg, list) ==
    \A k \in 1..Len(cg.nodes) : Occurrences(list, k) = IF IsLoop(cg, k) THEN 1 ELSE 0

\* C26: the list of loops one call of condensate_graph resolves holds every
\* SCC of two or more blocks and every block that targets its own leader,
\* each exactly once, also an SCC of several blocks whose first block
\* targets itself.
C26_EachLoopResolvedOnce ==
    pc = "condense" =>
        \E cg \in {condense_cycles(graph)} :
            EachLoopOnce(cg, condensed_nodes(Context(blocks, recursive_functions,
                                                     fictious_map, env), cg))

-----------------------------------------------------------------------------
(* The index maps of a mapped graph.                                       *)

\* The leaders of the nodes present in the stable graph.
PresentNodes == {mapped.nodes[ni] : ni \in DOMAIN mapped.nodes}

\* The pairs of leaders of the edges present in the stable graph.
PresentEdges ==
    {<<mapped.nodes[mapped.edges[e].s], mapped.nodes[mapped.edges[e].t]>> :
        e \in DOMAIN mapped.edges}

\* C27: after any sequence of add_node, add_edge, remove_edge and
\* remove_node the keys of node_index_map are the leaders of the nodes
\* present in the graph and the keys of edge_index_map are the pairs of
\* leaders of the edges present, so that an edge removed with its node can be
\* added again.
C27_IndexMapsMatchGraph ==
    pc = "graph" =>
        /\ DOMAIN mapped.node_index_map = PresentNodes
        /\ DOMAIN mapped.edge_index_map = PresentEdges

-----------------------------------------------------------------------------
(* The recursion of condensate_graph.                                      *)

\* The number of blocks of the largest SCC of the graph g.
LargestScc(g) == MaxOf({Cardinality(SccOf(g.edges, m)) : m \in Range(g.nodes)})

\* The graph inner is the cycle graph of the blocks of node n of cg without
\* the edges into entry_block, and each of its SCCs has fewer blocks than
\* the node.
SmallerInside(cg, n, inner, entry_block) ==
    /\ inner.nodes = CycleGraphOf(cg, n).nodes
    /\ \A k \in 1..Len(inner.edges) :
          inner.edges[k].live
             <=> (CycleGraphOf(cg, n).edges[k].live /\ inner.edges[k].t # entry_block)
    /\ LargestScc(inner) < Len(cg.nodes[n].blocks)

RECURSIVE RecursionShrinks(_, _, _, _, _)
RECURSIVE CallsShrink(_, _, _, _)

\* The resolution of node n of st.cg at recursion depth depth makes no
\* recursive call, or one on a graph of smaller SCCs at a depth within the
\* number of blocks, in which the same holds.
NodeShrinks(ctx, st, n, depth) ==
    \E scan \in {ScanCycle(ctx, st.cg, n, CycleGraphOf(st.cg, n),
                            cg_neighbors_incoming(st.cg, n))} :
       \E inner \in {BreakBackEdges(CycleGraphOf(st.cg, n), scan.entry_block)} :
          \/ longest_path(inner, scan.entry_block).ok
          \/ /\ SmallerInside(st.cg, n, inner, scan.entry_block)
             /\ depth <= Cardinality(DOMAIN ctx.blocks)
             /\ CallsShrink(ctx, inner, [elm |-> st.elm, lm |-> st.lm], depth + 1)

\* The same for the nodes of the list from the k-th on, each resolved in the
\* state the ones before it left.
RecursionShrinks(ctx, st, list, k, depth) ==
    \/ k > Len(list)
    \/ st.fail # ""
    \/ /\ NodeShrinks(ctx, st, list[k], depth)
       /\ RecursionShrinks(ctx, ResolveNode(ctx, st, list[k]), list, k + 1, depth)

\* The same for one call of condensate_graph on the graph g.
CallsShrink(ctx, g, maps, depth) ==
    \E cg \in {condense_cycles(g)} :
        RecursionShrinks(ctx, [cg |-> cg, elm |-> maps.elm, lm |-> maps.lm, fail |-> ""],
                         condensed_nodes(ctx, cg), 1, depth)

\* C28: condensate_graph terminates: each recursive call it makes receives
\* the cycle graph of the SCC being resolved without the edges into the
\* chosen entry, whose SCCs all have fewer blocks than that SCC, and the
\* depth of the recursion stays within the number of blocks.
C28_RecursionOnSmallerSccs ==
    pc = "condense" =>
        CallsShrink(Context(blocks, recursive_functions, fictious_map, env), graph,
                    [elm |-> EmptyMap, lm |-> EmptyMap], 1)

\* The first loop condensate_graph resolves holds an inner loop of two or
\* more blocks: the longest path of its cycle graph reports a cycle and the
\* recursive call is made.
C28_Witness ==
    /\ pc = "condense"
    /\ \E cg \in {condense_cycles(graph)} :
          \E list \in {condensed_nodes(Context(blocks, recursive_functions,
                                                fictious_map, env), cg)} :
             /\ list # <<>>
             /\ \E scan \in {ChosenScan(cg, list[1])} :
                   \E inner \in {BreakBackEdges(CycleGraphOf(cg, list[1]), scan.entry_block)} :
                      /\ ~longest_path(inner, scan.entry_block).ok
                      /\ LargestScc(inner) >= 2

-----------------------------------------------------------------------------
(* C29: the branch of a loop that holds a nested loop never fails.         *)

\* The failures of cycle.rs:285-424: a key missing from node_index_map, the
\* unwrap of an exit node that was not found, and the unwrap of a negative
\* cycle.
NestedFailures ==
    {"remove_node: no entry found for key", "unwrap on None: no exit node",
     "longest_path: no entry found for key", "unwrap on Err(NegativeCycle)"}

\* C29: with every CYCLE_ and RECURSIVE_ variable unset or a valid number,
\* condensate_graph ends without the lookup of a missing map key, the unwrap
\* of an empty option or an unhandled negative cycle in the branch of the
\* nested loop, wherever the exit block and the entry block of the loop lie.
C29_NestedBranchCompletes ==
    [][pc = "condense" => failure' \notin NestedFailures]_vars

-----------------------------------------------------------------------------
(* C30: the frame of Block::modify_targets.                                *)

\* after is before with exactly its successors equal to target replaced by
\* new_target, and with the same leader, instructions, exit-jump variant and
\* call fall-through.
OnlyTargetReplaced(before, after, new_target, target) ==
    /\ after.leader = before.leader
    /\ after.instructions = before.instructions
    /\ after.exit_jump.type = before.exit_jump.type
    /\ before.exit_jump.type = "Call" => after.exit_jump.b = before.exit_jump.b
    /\ Len(get_targets(after)) = Len(get_targets(before))
    /\ \A i \in 1..Len(get_targets(before)) :
          get_targets(after)[i] = IF get_targets(before)[i] = target THEN new_target
                                  ELSE get_targets(before)[i]

\* C30: every call modify_targets(new_target, target) replaces by new_target
\* exactly the successors of the block equal to target, both arms of a
\* conditional included, leaves an exit whose target differs from target as
\* it is, and changes neither the leader, the instructions, the variant of
\* the exit jump nor the fall-through of a call.
C30_ModifyTargetsReplacesOnlyTarget ==
    [][\A new_target \in BlockTargets, target \in BlockTargets :
          (pc = "block" /\ current_block' = modify_targets(current_block, new_target, target))
             => OnlyTargetReplaced(current_block, current_block', new_target, target)]_vars

====
